---------------------------- MODULE Spec2Model ----------------------------
(***************************************************************************)
(* Whistler: the SSH gateway (server.py), the instance store (config.py)   *)
(* and the reconciliation operator (operator.py) as one state machine.     *)
(*                                                                         *)
(* Strings the code slices (login handles, resource names) are sequences   *)
(* of one-character strings, so that split('-'), '-'.join and startswith   *)
(* are computed and not assumed.                                           *)
(***************************************************************************)
EXTENDS Integers, Sequences, FiniteSets, TLC

\* Python's None, for a value that is otherwise a string
None == <<"None">>

---------------------------------------------------------------------------
(* str.split('-'), '-'.join(parts), str.startswith                          *)

RECURSIVE split(_)
split(s) ==
    IF \A i \in 1..Len(s) : s[i] # "-"
    THEN <<s>>
    ELSE LET k == CHOOSE i \in 1..Len(s) :
                      s[i] = "-" /\ \A j \in 1..(i - 1) : s[j] # "-"
         IN  <<SubSeq(s, 1, k - 1)>> \o split(SubSeq(s, k + 1, Len(s)))

RECURSIVE join(_)
join(parts) ==
    IF Len(parts) = 0 THEN <<>>
    ELSE IF Len(parts) = 1 THEN parts[1]
    ELSE parts[1] \o <<"-">> \o join(Tail(parts))

startswith(s, p) == Len(p) <= Len(s) /\ SubSeq(s, 1, Len(p)) = p

\* f"{a}-{b}"
dashed(a, b) == a \o <<"-">> \o b

\* strip_prefix that strips nothing
strip_nothing(full_name, username) == full_name

\* full_name[len(username)+1:] when full_name starts with f"{username}-"
strip_prefix(full_name, username) ==
    IF startswith(full_name, username \o <<"-">>)
    THEN SubSeq(full_name, Len(username) + 2, Len(full_name))
    ELSE full_name

---------------------------------------------------------------------------
(* The deployment: users.yaml, the namespaces, the templates                *)

Alice == <<"a">>

Bob == <<"b">>

Mallory == <<"m">>

SystemOwner == <<"system">>

\* self.namespace, the system namespace ("whistler" fallback)
SystemNS == <<"whistler">>

\* f"whistler-user-{username}"
_get_user_namespace(username) == <<"whistler-user-">> \o username

\* /etc/whistler/users.yaml: name -> publicKeys, each a line "type body [comment]"
UsersYaml ==
    (Alice :> {<<"ssh-ed25519", "KA", "alice@laptop">>}) @@
    (Bob   :> {<<"ssh-rsa", "KB">>})

\* the keys a client may offer
OfferedKeys ==
    { [type |-> "ssh-ed25519", body |-> "KA"],
      [type |-> "ssh-rsa",     body |-> "KB"],
      [type |-> "ssh-ed25519", body |-> "KM"] }

user_exists(username) == username \in DOMAIN UsersYaml

\* get_user_public_keys that hands out the keys of every user
all_public_keys(username) == UNION {UsersYaml[u] : u \in DOMAIN UsersYaml}

get_user_public_keys(username) ==
    IF username \in DOMAIN UsersYaml THEN UsersYaml[username] ELSE {}

\* key.export_public_key().decode('utf-8').split()[1]
key_data_of(key) == <<key.type, key.body>>[2]

\* key_data in allowed: containment in the stored line, token by token
contains(allowed, key_data) == \E i \in 1..Len(allowed) : allowed[i] = key_data

\* the WhistlerTemplate objects of the cluster, in list order
TemplatesInit ==
    << [ns |-> SystemNS, name |-> <<"s">>, user |-> SystemOwner,
        image |-> "ubuntu:22.04", rv |-> 1],
       [ns |-> _get_user_namespace(Alice), name |-> <<"a", "-", "t">>,
        user |-> Alice, image |-> "alice/tools:1", rv |-> 1],
       [ns |-> _get_user_namespace(Bob), name |-> <<"b", "-", "u">>,
        user |-> Bob, image |-> "bob/tools:1", rv |-> 1] >>

\* WhistlerTemplate objects that may have been applied to the cluster: in each
\* of the three namespaces one without spec.user, one of alice and one of bob
TemplateCatalogue ==
    << [ns |-> SystemNS, name |-> <<"s">>, user |-> SystemOwner,
        image |-> "ubuntu:22.04", rv |-> 1],
       [ns |-> SystemNS, name |-> <<"a", "-", "x">>, user |-> Alice,
        image |-> "alice/x:1", rv |-> 1],
       [ns |-> SystemNS, name |-> <<"b", "-", "x">>, user |-> Bob,
        image |-> "bob/x:1", rv |-> 1],
       [ns |-> _get_user_namespace(Alice), name |-> <<"g">>, user |-> SystemOwner,
        image |-> "debian:12", rv |-> 1],
       [ns |-> _get_user_namespace(Alice), name |-> <<"a", "-", "t">>,
        user |-> Alice, image |-> "alice/tools:1", rv |-> 1],
       [ns |-> _get_user_namespace(Alice), name |-> <<"b", "-", "v">>,
        user |-> Bob, image |-> "bob/v:1", rv |-> 1],
       [ns |-> _get_user_namespace(Bob), name |-> <<"h">>, user |-> SystemOwner,
        image |-> "alpine:3", rv |-> 1],
       [ns |-> _get_user_namespace(Bob), name |-> <<"a", "-", "y">>,
        user |-> Alice, image |-> "alice/y:1", rv |-> 1],
       [ns |-> _get_user_namespace(Bob), name |-> <<"b", "-", "u">>,
        user |-> Bob, image |-> "bob/tools:1", rv |-> 1] >>

\* the login handles a client may present
Handles ==
    { <<"a">>,
      <<"a", "-", "s">>,
      <<"a", "-", "t">>,
      <<"a", "-", "d">>,
      <<"a", "-", "d", "-", "e">>,
      <<"m", "-", "d">> }

ForwardHosts == {"localhost", "127.0.0.1", "example.com"}

---------------------------------------------------------------------------
(* Bounds of the model                                                     *)

\* instance declarations the API server hands a uid to in one behaviour
MaxUid == 2

\* readiness polls (0.5 s each) that fit into the timeout of _wait_for_pod
TimeoutTicks == 2

\* operator restarts (kopf resume events) in one behaviour
MaxResumes == 1

\* window-change requests a client sends in one session
MaxResizes == 3

\* chunks of shell output the exec subprocess produces in one session
MaxChunks == 1

\* replacements of one template object before the menu stops saving
MaxVersion == 2

---------------------------------------------------------------------------
VARIABLES
    \* the cluster
    namespaces,     \* names of the namespaces that exist
    policies,       \* namespaces holding the NetworkPolicy isolate-user-pods
    pvcs,           \* PersistentVolumeClaims, [ns, name]
    templates,      \* WhistlerTemplate objects, in list order
    instances,      \* WhistlerInstance objects
    pods,           \* Pod objects
    nextUid,        \* the next metadata.uid the API server hands out
    \* the operator (kopf)
    events,         \* instances (ns, name) with a handler invocation due
    handlers,       \* handler invocations in progress
    outcome,        \* how the last handler invocation of each instance (uid) ended
    resumes,        \* operator restarts so far
    \* one SSH connection (SSHServer)
    allow_any,      \* WHISTLER_AUTH_ALLOW_ANY == "true"
    handle,         \* the login handle the client presents
    conn,           \* "auth", "open" (authenticated) or "lost"
    srv,            \* the SSHServer object's attributes
    auth,           \* the last authentication attempt
    fwd,            \* the last direct-TCP forward request and its result
    tunnels,        \* exec streams opened by _create_pod_tunnel
    \* its session (WhistlerSession)
    ses,            \* the session object's attributes
    task,           \* the session's coroutines and where each is suspended
    chan,           \* what the session wrote to the SSH channel
    procs,          \* exec subprocesses of the session
    \* the menu (WhistlerApp)
    api,            \* the last InstanceStore call made from the menu and its result
    saves           \* the calls of save_template running in executor threads

clusterVars == <<namespaces, policies, pvcs, templates, instances, pods, nextUid>>
operatorVars == <<events, handlers, outcome, resumes>>
gatewayVars == <<allow_any, handle, conn, srv, auth, fwd, tunnels>>
sessionVars == <<ses, task, chan, procs>>
menuVars == <<api, saves>>
vars == <<clusterVars, operatorVars, gatewayVars, sessionVars, menuVars>>

---------------------------------------------------------------------------
(* config.py: KubeConfigManager, the instance store                        *)

\* list_namespaced_custom_object(..., ns, "whistlertemplates")["items"]
list_templates(ns) == SelectSeq(templates, LAMBDA t : t.ns = ns)

\* one item of get_user_templates: display name, fullName and source
template_view(item, username) ==
    IF item.user = SystemOwner
    THEN [name |-> item.name, fullName |-> item.name, source |-> "system",
          image |-> item.image]
    ELSE [name |-> strip_prefix(item.name, username), fullName |-> item.name,
          source |-> "user", image |-> item.image]

\* templates.sort(key=source): stable, "system" before "user"
sort_by_source(ts) ==
    SelectSeq(ts, LAMBDA t : t.source = "system") \o
    SelectSeq(ts, LAMBDA t : t.source = "user")

get_user_templates(username) ==
    LET user_ns == _get_user_namespace(username)
        namespaces_to_search ==
            IF user_ns # SystemNS THEN <<SystemNS, user_ns>> ELSE <<SystemNS>>
        kept(ns) ==
            SelectSeq(list_templates(ns),
                      LAMBDA t : t.user = SystemOwner \/ t.user = username)
        views(ns) == [i \in 1..Len(kept(ns)) |->
                         template_view(kept(ns)[i], username)]
        all == IF Len(namespaces_to_search) = 2
               THEN views(namespaces_to_search[1]) \o views(namespaces_to_search[2])
               ELSE views(namespaces_to_search[1])
    IN  sort_by_source(all)

\* next((t for t in templates if t["name"] == name), None)
NoTemplate == [name |-> None, fullName |-> None, source |-> "None", image |-> "None"]

first_template(ts, name) ==
    IF \E i \in 1..Len(ts) : ts[i].name = name
    THEN ts[CHOOSE i \in 1..Len(ts) :
                ts[i].name = name /\ \A j \in 1..(i - 1) : ts[j].name # name]
    ELSE NoTemplate

\* the pod get_user_instances joins to an instance: label user=<username>,
\* indexed by the label "instance"
pod_map(user_ns, username, full_name) ==
    {p \in pods : p.ns = user_ns /\ p.user = username /\ p.instance = full_name}

\* instance_view that reports the phase of a pod that is being deleted
instance_view_by_phase(item, username) ==
    LET user_ns == _get_user_namespace(username)
        joined == pod_map(user_ns, username, item.name)
        pod == CHOOSE p \in joined : TRUE
    IN  [name        |-> strip_prefix(item.name, username),
         template    |-> item.templateRef,
         status      |-> IF joined = {} THEN "Stopped" ELSE pod.phase,
         podName     |-> IF joined = {} THEN None ELSE pod.name,
         namespace   |-> user_ns,
         preemptible |-> item.preemptible]

\* one entry of get_user_instances: the declaration joined to its pod
instance_view(item, username) ==
    LET user_ns == _get_user_namespace(username)
        joined == pod_map(user_ns, username, item.name)
        pod == CHOOSE p \in joined : TRUE
    IN  [name        |-> strip_prefix(item.name, username),
         template    |-> item.templateRef,
         status      |-> IF joined = {} THEN "Stopped"
                         ELSE IF pod.deleting THEN "Terminating"
                         ELSE pod.phase,
         podName     |-> IF joined = {} THEN None ELSE pod.name,
         namespace   |-> user_ns,
         preemptible |-> item.preemptible]

get_user_instances(username) ==
    {instance_view(i, username) :
        i \in {x \in instances : x.ns = _get_user_namespace(username)}}

\* what the API server may answer to the two list calls of get_user_instances
ListFaults == {"none", "list_error", "pods_error"}

\* get_user_instances with the answers of its list calls: an ApiException of
\* the instance listing (404 or not) leaves the result empty, one of the pod
\* listing leaves pod_map empty; ret is "returned" or "raised"
get_user_instances_result(username, fault) ==
    LET user_ns == _get_user_namespace(username)
        items == {x \in instances : x.ns = user_ns}
    IN  [ret   |-> "returned",
         items |-> IF user_ns \notin namespaces \/ fault = "list_error" THEN {}
                   ELSE IF fault = "pods_error"
                   THEN {[instance_view(i, username) EXCEPT
                             !.status = "Stopped", !.podName = None] : i \in items}
                   ELSE get_user_instances(username)]

\* next((i for i in instances if i["name"] == name), None)
NoInstance ==
    [name |-> None, template |-> None, status |-> "None", podName |-> None,
     namespace |-> None, preemptible |-> FALSE]

find_instance(views, name) ==
    IF \E i \in views : i.name = name
    THEN CHOOSE i \in views : i.name = name
    ELSE NoInstance

\* _ensure_user_namespace: read the namespace and create it on 404 (any other
\* error is raised); read the policy and create it on 404 (any other error
\* is ignored)
_ensure_user_namespace(username, fault) ==
    LET ns_name == _get_user_namespace(username)
    IN  IF fault = "namespace_read_error"
        THEN [raised |-> TRUE, namespaces |-> namespaces, policies |-> policies]
        ELSE [raised     |-> FALSE,
              namespaces |-> namespaces \cup {ns_name},
              policies   |-> IF fault = "policy_read_error" THEN policies
                             ELSE policies \cup {ns_name}]

\* the faults of the API calls add_instance makes
AddFaults == {"none", "namespace_read_error", "policy_read_error", "create_error"}

\* add_instance if the create call replaced a declaration of the same name
add_instance_replacing(username, template_name, instance_name, preemptible, fault) ==
    LET ens     == _ensure_user_namespace(username, fault)
        user_ns == _get_user_namespace(username)
        name    == dashed(username, instance_name)
        body    == [ns |-> user_ns, name |-> name, templateRef |-> template_name,
                    user |-> username, preemptible |-> preemptible,
                    uid |-> nextUid, annotated |-> FALSE]
        created == ~ens.raised /\ fault # "create_error"
        others  == {i \in instances : ~(i.ns = user_ns /\ i.name = name)}
    IN  [ret        |-> IF ens.raised THEN "raised"
                        ELSE IF created THEN "True" ELSE "False",
         namespaces |-> ens.namespaces,
         policies   |-> ens.policies,
         instances  |-> IF created THEN others \cup {body} ELSE instances,
         events     |-> IF created THEN events \cup {<<user_ns, name>>} ELSE events,
         nextUid    |-> IF created THEN nextUid + 1 ELSE nextUid]

\* add_instance: ret is True, False or "raised"; the rest is the cluster after it
add_instance(username, template_name, instance_name, preemptible, fault) ==
    LET ens     == _ensure_user_namespace(username, fault)
        user_ns == _get_user_namespace(username)
        name    == dashed(username, instance_name)
        body    == [ns |-> user_ns, name |-> name, templateRef |-> template_name,
                    user |-> username, preemptible |-> preemptible,
                    uid |-> nextUid, annotated |-> FALSE]
        conflict == \E i \in instances : i.ns = user_ns /\ i.name = name
        created == ~ens.raised /\ ~conflict /\ fault # "create_error"
    IN  [ret        |-> IF ens.raised THEN "raised"
                        ELSE IF created THEN "True" ELSE "False",
         namespaces |-> ens.namespaces,
         policies   |-> ens.policies,
         instances  |-> IF created THEN instances \cup {body} ELSE instances,
         events     |-> IF created THEN events \cup {<<user_ns, name>>} ELSE events,
         nextUid    |-> IF created THEN nextUid + 1 ELSE nextUid]

\* delete_instance: ret is True or False; an ApiException (404 included) is False
delete_instance(username, instance_name, fault) ==
    LET user_ns == _get_user_namespace(username)
        name    == dashed(username, instance_name)
        found   == \E i \in instances : i.ns = user_ns /\ i.name = name
        deleted == found /\ fault = "none"
    IN  [ret       |-> IF deleted THEN "True" ELSE "False",
         instances |-> IF deleted
                       THEN {i \in instances : ~(i.ns = user_ns /\ i.name = name)}
                       ELSE instances,
         events    |-> IF deleted THEN events \cup {<<user_ns, name>>} ELSE events]

\* the position of the WhistlerTemplate name of namespace ns in the store, 0
\* when get_namespaced_custom_object answers 404
template_index(ns, name) ==
    IF \E i \in 1..Len(templates) : templates[i].ns = ns /\ templates[i].name = name
    THEN CHOOSE i \in 1..Len(templates) :
             templates[i].ns = ns /\ templates[i].name = name
    ELSE 0

\* the body save_template builds, before a resourceVersion is put into it
save_template_body(username, template_data) ==
    [ns |-> _get_user_namespace(username),
     name |-> dashed(username, template_data.name), user |-> username,
     image |-> template_data.image, rv |-> 0]

\* a replace the API server accepts whatever resourceVersion the body carries
replace_namespaced_unversioned(body) ==
    LET i == template_index(body.ns, body.name)
    IN  IF i = 0
        THEN [status |-> "404", templates |-> templates]
        ELSE [status |-> "200",
              templates |-> [templates EXCEPT
                                ![i] = [body EXCEPT !.rv = templates[i].rv + 1]]]

\* replace_namespaced_custom_object on whistlertemplates: 404 without the
\* object, 409 when the body's metadata.resourceVersion is not the stored one
replace_namespaced_custom_object(body) ==
    LET i == template_index(body.ns, body.name)
    IN  IF i = 0
        THEN [status |-> "404", templates |-> templates]
        ELSE IF templates[i].rv # body.rv
        THEN [status |-> "409", templates |-> templates]
        ELSE [status |-> "200",
              templates |-> [templates EXCEPT
                                ![i] = [body EXCEPT !.rv = templates[i].rv + 1]]]

\* create_namespaced_custom_object on whistlertemplates: 409 when it exists
create_namespaced_custom_object(body) ==
    IF template_index(body.ns, body.name) # 0
    THEN [status |-> "409", templates |-> templates]
    ELSE [status |-> "201", templates |-> Append(templates, [body EXCEPT !.rv = 1])]

\* the faults of the API calls save_template makes
SaveFaults == {"none", "namespace_read_error", "policy_read_error", "save_error"}

\* save_template: the WhistlerTemplate f"{username}-{name}" of the user's
\* namespace is replaced when it exists and created otherwise; ret is True,
\* False (no name, or an ApiException of the write) or "raised"
save_template(username, template_data, fault) ==
    LET full_name == dashed(username, template_data.name)
        ens       == _ensure_user_namespace(username, fault)
        user_ns   == _get_user_namespace(username)
        body      == save_template_body(username, template_data)
        exists    == template_index(user_ns, full_name) # 0
        saved     == template_data.name # <<>> /\ ~ens.raised /\ fault # "save_error"
    IN  IF template_data.name = <<>>
        THEN [ret |-> "False", namespaces |-> namespaces, policies |-> policies,
              templates |-> templates]
        ELSE [ret        |-> IF ens.raised THEN "raised"
                             ELSE IF saved THEN "True" ELSE "False",
              namespaces |-> ens.namespaces,
              policies   |-> ens.policies,
              templates  |-> IF ~saved THEN templates
                             ELSE IF exists
                             THEN [i \in 1..Len(templates) |->
                                      IF templates[i].ns = user_ns
                                         /\ templates[i].name = full_name
                                      THEN [body EXCEPT !.rv = templates[i].rv + 1]
                                      ELSE templates[i]]
                             ELSE Append(templates, [body EXCEPT !.rv = 1])]

\* a patch that creates the object it does not find
patch_instance_annotation_upsert(namespace, name) ==
    LET found == \E i \in instances : i.ns = namespace /\ i.name = name
        made  == [ns |-> namespace, name |-> name, templateRef |-> None,
                  user |-> None, preemptible |-> FALSE, uid |-> nextUid,
                  annotated |-> TRUE]
    IN  [ret       |-> "patched",
         instances |-> IF found
                       THEN {IF i.ns = namespace /\ i.name = name
                             THEN [i EXCEPT !.annotated = TRUE] ELSE i : i \in instances}
                       ELSE instances \cup {made},
         events    |-> events \cup {<<namespace, name>>}]

\* api.patch_namespaced_custom_object(group, version, namespace,
\* "whistlerinstances", name, {metadata: {annotations: {last-connect: now}}}):
\* the object patched, or a 404; a patch is an update event for the operator
patch_instance_annotation(namespace, name) ==
    LET found == \E i \in instances : i.ns = namespace /\ i.name = name
    IN  [ret       |-> IF found THEN "patched" ELSE "404",
         instances |-> {IF i.ns = namespace /\ i.name = name
                        THEN [i EXCEPT !.annotated = TRUE] ELSE i : i \in instances},
         events    |-> IF found THEN events \cup {<<namespace, name>>} ELSE events]

---------------------------------------------------------------------------
(* operator.py: the kopf handlers, one API call per step                   *)

instance_at(key) ==
    CHOOSE i \in instances : i.ns = key[1] /\ i.name = key[2]

instance_exists(key) == \E i \in instances : i.ns = key[1] /\ i.name = key[2]

in_progress(key) == \E h \in handlers : h.key = key

set_outcome(uid, result) == (uid :> result) @@ outcome

\* custom_api.get_namespaced_custom_object(namespace=namespace,
\* plural="whistlertemplates", name=template_ref): the object, or a 404
read_template(namespace, template_ref) ==
    {templates[i] : i \in {j \in 1..Len(templates) :
        templates[j].ns = namespace /\ templates[j].name = template_ref}}

\* metadata.ownerReferences of an object nobody adopted
NoOwner == 0

\* pod_body without kopf.adopt
pod_body_unowned(body, image) ==
    [ns        |-> body.ns,
     name      |-> body.name,
     app       |-> "whistler-instance",
     instance  |-> body.name,
     user      |-> body.user,
     image     |-> image,
     hostname  |-> strip_prefix(body.name, body.user),
     priority  |-> IF body.preemptible THEN "whistler-preemptible" ELSE "default",
     owner     |-> NoOwner,
     phase     |-> "Pending",
     deleting  |-> FALSE]

\* the pod_body ensure_pod builds, adopted by the instance the handler runs for
pod_body(body, image) ==
    [ns        |-> body.ns,
     name      |-> body.name,
     app       |-> "whistler-instance",
     instance  |-> body.name,
     user      |-> body.user,
     image     |-> image,
     hostname  |-> strip_prefix(body.name, body.user),
     priority  |-> IF body.preemptible THEN "whistler-preemptible" ELSE "default",
     owner     |-> body.uid,
     phase     |-> "Pending",
     deleting  |-> FALSE]

\* ReconcileStart if a missing template ended the handler for good
ReconcileStartNoRetry(key, fault) ==
    /\ key \in events
    /\ ~in_progress(key)
    /\ instance_exists(key)
    /\ LET body  == instance_at(key)
           found == read_template(body.ns, body.templateRef)
       IN  IF fault = "read_error" \/ found = {}
           THEN /\ events' = events \ {key}
                /\ outcome' = set_outcome(body.uid, "permanent")
                /\ UNCHANGED handlers
           ELSE /\ events' = events \ {key}
                /\ handlers' = handlers \cup
                       {[key |-> key, pc |-> "pvc_read", body |-> body,
                         image |-> (CHOOSE t \in found : TRUE).image]}
                /\ UNCHANGED outcome
    /\ UNCHANGED <<clusterVars, resumes, gatewayVars, sessionVars, menuVars>>

\* reconcile_fn is invoked (create, update, resume or a retry) and ensure_pod
\* fetches the template of the instance from the instance's namespace
ReconcileStart(key, fault) ==
    /\ key \in events
    /\ ~in_progress(key)
    /\ instance_exists(key)
    /\ LET body  == instance_at(key)
           found == read_template(body.ns, body.templateRef)
       IN  IF fault = "read_error"
           THEN \* kopf.PermanentError("Failed to fetch template")
                /\ events' = events \ {key}
                /\ outcome' = set_outcome(body.uid, "permanent")
                /\ UNCHANGED handlers
           ELSE IF found = {}
           THEN \* kopf.TemporaryError("Template not found", delay=10): retried
                /\ outcome' = set_outcome(body.uid, "temporary")
                /\ UNCHANGED <<events, handlers>>
           ELSE /\ events' = events \ {key}
                /\ handlers' = handlers \cup
                       {[key |-> key, pc |-> "pvc_read", body |-> body,
                         image |-> (CHOOSE t \in found : TRUE).image]}
                /\ UNCHANGED outcome
    /\ UNCHANGED <<clusterVars, resumes, gatewayVars, sessionVars, menuVars>>

\* ensure_pvc: read_namespaced_persistent_volume_claim
EnsurePvcRead(h, fault) ==
    /\ h \in handlers /\ h.pc = "pvc_read"
    /\ LET pvc == [ns |-> h.body.ns, name |-> <<"whistler-data-">> \o h.body.user]
       IN  IF fault = "read_error"
           THEN /\ handlers' = handlers \ {h}
                /\ outcome' = set_outcome(h.body.uid, "permanent")
           ELSE /\ handlers' = (handlers \ {h}) \cup
                       {[h EXCEPT !.pc = IF pvc \in pvcs THEN "pod_create"
                                         ELSE "pvc_create"]}
                /\ UNCHANGED outcome
    /\ UNCHANGED <<clusterVars, events, resumes, gatewayVars, sessionVars, menuVars>>

\* ensure_pvc: create_namespaced_persistent_volume_claim; any ApiException,
\* a 409 included, is a PermanentError
EnsurePvcCreate(h) ==
    /\ h \in handlers /\ h.pc = "pvc_create"
    /\ LET pvc == [ns |-> h.body.ns, name |-> <<"whistler-data-">> \o h.body.user]
       IN  IF pvc \in pvcs
           THEN /\ handlers' = handlers \ {h}
                /\ outcome' = set_outcome(h.body.uid, "permanent")
                /\ UNCHANGED pvcs
           ELSE /\ pvcs' = pvcs \cup {pvc}
                /\ handlers' = (handlers \ {h}) \cup {[h EXCEPT !.pc = "pod_create"]}
                /\ UNCHANGED outcome
    /\ UNCHANGED <<namespaces, policies, templates, instances, pods, nextUid,
                   events, resumes, gatewayVars, sessionVars, menuVars>>

\* api.create_namespaced_pod(namespace, pod_body)
PodCreate(h, fault) ==
    /\ h \in handlers /\ h.pc = "pod_create"
    /\ IF fault = "create_error"
       THEN \* kopf.PermanentError("Failed to create pod")
            /\ handlers' = handlers \ {h}
            /\ outcome' = set_outcome(h.body.uid, "permanent")
            /\ UNCHANGED pods
       ELSE IF \E p \in pods : p.ns = h.body.ns /\ p.name = h.body.name
       THEN \* 409
            /\ handlers' = (handlers \ {h}) \cup {[h EXCEPT !.pc = "pod_check"]}
            /\ UNCHANGED <<pods, outcome>>
       ELSE /\ pods' = pods \cup {pod_body(h.body, h.image)}
            /\ handlers' = handlers \ {h}
            /\ outcome' = set_outcome(h.body.uid, "ok")
    /\ UNCHANGED <<namespaces, policies, pvcs, templates, instances, nextUid,
                   events, resumes, gatewayVars, sessionVars, menuVars>>

\* after the 409: api.read_namespaced_pod(pod_name, namespace)
PodCheck(h) ==
    /\ h \in handlers /\ h.pc = "pod_check"
    /\ handlers' = handlers \ {h}
    /\ IF \E p \in pods : p.ns = h.body.ns /\ p.name = h.body.name /\ p.deleting
       THEN \* kopf.TemporaryError("Pod is terminating", delay=2): retried
            /\ outcome' = set_outcome(h.body.uid, "temporary")
            /\ events' = events \cup {h.key}
       ELSE \* "already exists", or vanished in the meantime
            /\ outcome' = set_outcome(h.body.uid, "ok")
            /\ UNCHANGED events
    /\ UNCHANGED <<clusterVars, resumes, gatewayVars, sessionVars, menuVars>>

\* delete_fn: logs; the pod is left to the garbage collector
delete_fn(key) ==
    /\ key \in events
    /\ ~in_progress(key)
    /\ ~instance_exists(key)
    /\ events' = events \ {key}
    /\ UNCHANGED <<clusterVars, handlers, outcome, resumes, gatewayVars,
                   sessionVars, menuVars>>

\* the operator restarts: @kopf.on.resume for every instance that exists
OperatorResume ==
    /\ resumes < MaxResumes
    /\ resumes' = resumes + 1
    /\ handlers' = {}
    /\ events' = events \cup {<<i.ns, i.name>> : i \in instances}
    /\ UNCHANGED <<clusterVars, outcome, gatewayVars, sessionVars, menuVars>>

---------------------------------------------------------------------------
(* Kubernetes: the garbage collector, the kubelet, preemption              *)

set_pod(p, q) == (pods \ {p}) \cup {q}

\* a pod whose owner (kopf.adopt) is gone is deleted: it gets a deletion
\* timestamp; a pod without an ownerReference is left alone
KubeGC(p) ==
    /\ p \in pods /\ ~p.deleting
    /\ p.owner # NoOwner
    /\ p.owner \notin {i.uid : i \in instances}
    /\ pods' = set_pod(p, [p EXCEPT !.deleting = TRUE])
    /\ UNCHANGED <<namespaces, policies, pvcs, templates, instances, nextUid,
                   operatorVars, gatewayVars, sessionVars, menuVars>>

\* a terminating pod is gone
PodRemoved(p) ==
    /\ p \in pods /\ p.deleting
    /\ pods' = pods \ {p}
    /\ UNCHANGED <<namespaces, policies, pvcs, templates, instances, nextUid,
                   operatorVars, gatewayVars, sessionVars, menuVars>>

\* the container of a scheduled pod starts
PodStarts(p) ==
    /\ p \in pods /\ ~p.deleting /\ p.phase = "Pending"
    /\ pods' = set_pod(p, [p EXCEPT !.phase = "Running"])
    /\ UNCHANGED <<namespaces, policies, pvcs, templates, instances, nextUid,
                   operatorVars, gatewayVars, sessionVars, menuVars>>

\* a pod of priority class whistler-preemptible is evicted
PodPreempted(p) ==
    /\ p \in pods /\ ~p.deleting /\ p.priority = "whistler-preemptible"
    /\ p.owner \in {i.uid : i \in instances}
    /\ pods' = set_pod(p, [p EXCEPT !.deleting = TRUE])
    /\ UNCHANGED <<namespaces, policies, pvcs, templates, instances, nextUid,
                   operatorVars, gatewayVars, sessionVars, menuVars>>

---------------------------------------------------------------------------
(* server.py: SSHServer, one object per connection                         *)

\* SSHServer.__init__; active_instance_name is no attribute yet (getattr: None)
NewServer ==
    [username |-> None, target_type |-> "tui", target_name |-> None,
     active_instance_name |-> None]

\* has_template that compares the suffix with fullName instead of the short name
has_template_by_full_name(username, suffix) ==
    LET ts == get_user_templates(username)
    IN  \E i \in 1..Len(ts) : ts[i].fullName = suffix

has_template(username, suffix) ==
    LET ts == get_user_templates(username)
    IN  \E i \in 1..Len(ts) : ts[i].name = suffix

\* validate_password, the target block
password_target(s, username) ==
    LET parts == split(username)
        real_user == parts[1]
        s1 == [s EXCEPT !.username = real_user]
    IN  IF Len(parts) = 1
        THEN [s1 EXCEPT !.target_type = "tui"]
        ELSE LET suffix == join(Tail(parts))
             IN  IF has_template(real_user, suffix)
                 THEN [s1 EXCEPT !.target_type = "template", !.target_name = suffix]
                 ELSE [s1 EXCEPT !.target_type = "instance", !.target_name = suffix]

\* validate_public_key, the target block of the dev-mode bypass
bypass_target(s, username) ==
    LET parts == split(username)
        real_user == parts[1]
        s1 == [s EXCEPT !.username = real_user]
    IN  IF Len(parts) = 1
        THEN [s1 EXCEPT !.target_type = "tui"]
        ELSE LET suffix == join(Tail(parts))
             IN  IF has_template(real_user, suffix)
                 THEN [s1 EXCEPT !.target_type = "template", !.target_name = suffix]
                 ELSE [s1 EXCEPT !.target_type = "instance", !.target_name = suffix,
                                 !.active_instance_name = suffix]

\* validate_public_key, the target block after a key matched
publickey_target(s, username) ==
    LET parts == split(username)
        real_user == parts[1]
        s1 == [s EXCEPT !.username = real_user]
    IN  IF Len(parts) = 1
        THEN [s1 EXCEPT !.target_type = "tui"]
        ELSE LET suffix == join(Tail(parts))
             IN  IF has_template(real_user, suffix)
                 THEN [s1 EXCEPT !.target_type = "template", !.target_name = suffix]
                 ELSE [s1 EXCEPT !.target_type = "instance", !.target_name = suffix,
                                 !.active_instance_name = suffix]

\* validate_password without its check of WHISTLER_AUTH_ALLOW_ANY
validate_password_unchecked(s, username) ==
    [ok |-> TRUE, srv |-> password_target(s, username)]

password_auth_supported == allow_any

validate_password(s, username) ==
    IF ~allow_any
    THEN [ok |-> FALSE, srv |-> s]
    ELSE [ok |-> TRUE, srv |-> password_target(s, username)]

validate_public_key(s, username, key) ==
    LET real_user == split(username)[1]
        key_data == key_data_of(key)
    IN  IF allow_any
        THEN [ok |-> TRUE, srv |-> bypass_target(s, username)]
        ELSE IF ~user_exists(real_user)
        THEN [ok |-> FALSE, srv |-> s]
        ELSE IF \E allowed \in get_user_public_keys(real_user) :
                    contains(allowed, key_data)
        THEN [ok |-> TRUE, srv |-> publickey_target(s, username)]
        ELSE [ok |-> FALSE, srv |-> s]

\* the client tries a password
ValidatePassword ==
    /\ conn = "auth"
    /\ LET r == validate_password(srv, handle)
       IN  /\ srv' = r.srv
           /\ conn' = IF r.ok THEN "open" ELSE "auth"
           /\ auth' = [via |-> "password", ok |-> r.ok, key |-> "none"]
    /\ UNCHANGED <<clusterVars, operatorVars, allow_any, handle, fwd, tunnels,
                   sessionVars, menuVars>>

\* the client offers a public key
ValidatePublicKey(key) ==
    /\ conn = "auth"
    /\ LET r == validate_public_key(srv, handle, key)
       IN  /\ srv' = r.srv
           /\ conn' = IF r.ok THEN "open" ELSE "auth"
           /\ auth' = [via |-> "publickey", ok |-> r.ok, key |-> key.body]
    /\ UNCHANGED <<clusterVars, operatorVars, allow_any, handle, fwd, tunnels,
                   sessionVars, menuVars>>

\* _create_pod_tunnel that keeps the exec stream of a failed spawn
_create_pod_tunnel_kept(pod_name, spawned) ==
    [result |-> IF spawned THEN "opened" ELSE "connect_failed",
     tunnel |-> {[pod |-> pod_name, ns |-> SystemNS]}]

\* _create_pod_tunnel: kubectl exec -i <pod> -n <self.config_manager.namespace>
\* -- socat - TCP4:127.0.0.1:<port>; spawning it may fail
_create_pod_tunnel(pod_name, spawned) ==
    IF spawned
    THEN [result |-> "opened",
          tunnel |-> {[pod |-> pod_name, ns |-> SystemNS]}]
    ELSE [result |-> "connect_failed", tunnel |-> {}]

\* connection_requested without its check of the destination host
connection_requested_any_host(s, dest_host, spawned) ==
    LET instance_name == s.active_instance_name
    IN  IF instance_name = None \/ instance_name = <<>>
        THEN [result |-> "prohibited", tunnel |-> {}]
        ELSE LET inst == find_instance(get_user_instances(s.username), instance_name)
             IN  IF inst # NoInstance /\ inst.podName # None
                    /\ inst.status = "Running"
                 THEN _create_pod_tunnel(inst.podName, spawned)
                 ELSE [result |-> "connect_failed", tunnel |-> {}]

\* connection_requested: "opened", or the reason of the ChannelOpenError
connection_requested(s, dest_host, spawned) ==
    IF dest_host \notin {"localhost", "127.0.0.1"}
    THEN [result |-> "prohibited", tunnel |-> {}]
    ELSE LET instance_name == s.active_instance_name
         IN  IF instance_name = None \/ instance_name = <<>>
             THEN [result |-> "prohibited", tunnel |-> {}]
             ELSE LET inst == find_instance(get_user_instances(s.username),
                                            instance_name)
                  IN  IF inst # NoInstance /\ inst.podName # None
                         /\ inst.status = "Running"
                      THEN _create_pod_tunnel(inst.podName, spawned)
                      ELSE [result |-> "connect_failed", tunnel |-> {}]

---------------------------------------------------------------------------
(* server.py: WhistlerSession.  The session's coroutines run on one event  *)
(* loop: task.run names the coroutine that is running (between two awaits) *)
(* and no callback of the gateway runs meanwhile.  The cluster, the        *)
(* operator and the other clients run beside it.                           *)

\* secrets.token_hex(4)
HexIds == {<<"7">>}

NoSession ==
    [state |-> "none", username |-> None, target_type |-> "tui",
     target_name |-> None, term_type |-> FALSE, agent |-> FALSE,
     is_ephemeral |-> FALSE, instance_name |-> None, template_ref |-> None,
     created |-> "none", instance |-> NoInstance, seen |-> NoInstance,
     pod_name |-> None, elapsed |-> 0, last_status |-> "None",
     patched |-> "none", bound |-> None, cleanup |-> "none",
     _pending_size |-> None, _last_processed_size |-> None,
     _resize_timer |-> FALSE, winsize |-> None,
     \* self.initial_term_size, and the size the client signalled last
     initial_term_size |-> <<"80", "24">>, term_size |-> None,
     \* Resize messages posted to the app; their number before the last
     \* leading-edge post; cooldown expiries since then; resize events so far
     posts |-> <<>>, lead_at |-> 0, expired |-> 0, resizes |-> 0]

NoTask ==
    [run |-> "none", m |-> "none", c |-> "none", s |-> "none", app |-> "none",
     agent |-> "none", cancel_m |-> FALSE, cancel_i |-> FALSE, exc |-> "none"]

NewChannel == [open |-> TRUE, exit |-> "none", out |-> <<>>]

LoopFree == task.run = "none"

\* the coroutine that runs the connect logic: the session task without a PTY,
\* the task created beside the loading app with one
ConnTask == IF ses.term_type THEN "inner" ELSE "main"

\* the try/finally of _create_and_connect_ephemeral encloses the running code
InTry == ses.is_ephemeral /\ (ses.term_type \/ ses.created = "True")

\* self._chan.write(...): BrokenPipeError on a closed channel
chan_write(ch, tag) == IF ch.open THEN [ch EXCEPT !.out = Append(@, tag)] ELSE ch

\* self._chan.exit that closes the channel without sending a status
chan_close(ch, status) == [ch EXCEPT !.open = FALSE]

\* self._chan.exit(status): the status is sent and the channel closed
chan_exit(ch, status) ==
    IF ch.open THEN [ch EXCEPT !.open = FALSE, !.exit = status] ELSE ch

\* main_raise as it would be without the try/finally of the template mode
main_raise_unprotected(t, e) == [t EXCEPT !.m = "done", !.exc = e, !.run = "none"]

\* an exception leaves the code the session task runs: into the finally of
\* the template mode, or out of the task
main_raise(t, e) ==
    IF InTry THEN [t EXCEPT !.m = "finally", !.exc = e, !.run = "main"]
    ELSE [t EXCEPT !.m = "done", !.exc = e, !.run = "none"]

\* the function the session task runs returns: template mode has its finally
main_return(t) ==
    IF InTry THEN [t EXCEPT !.m = "finally", !.run = "main"]
    ELSE [t EXCEPT !.m = "done", !.run = "none"]

\* an exception leaves the connect logic
conn_raise(t, e) ==
    IF ConnTask = "inner"
    THEN [t EXCEPT !.c = IF e = "cancelled" THEN "cancelled" ELSE "raised",
                   !.run = "none"]
    ELSE main_raise([t EXCEPT !.c = "raised"], e)

\* the connect logic returns None
conn_return_none(t) ==
    IF ConnTask = "inner"
    THEN [t EXCEPT !.c = "returned", !.run = "none"]
    ELSE main_return([t EXCEPT !.c = "returned"])

\* the connect logic has its pod: _run_pod_shell, or return pod_name to the
\* session task
conn_return_pod(t) ==
    IF ConnTask = "inner"
    THEN [t EXCEPT !.c = "returned", !.run = "none"]
    ELSE [t EXCEPT !.c = "returned", !.m = "shell", !.s = "motd", !.run = "main"]

\* loading_app.request_exit(), in the PTY variant only
request_exit(t) == IF ses.term_type THEN [t EXCEPT !.app = "exit_requested"] ELSE t

session_requested ==
    /\ conn = "open" /\ LoopFree /\ ses.state = "none"
    /\ ses' = [NoSession EXCEPT !.state = "created", !.username = srv.username,
                                !.target_type = srv.target_type,
                                !.target_name = srv.target_name]
    /\ chan' = NewChannel
    /\ UNCHANGED <<clusterVars, operatorVars, gatewayVars, task, procs, menuVars>>

\* the terminal sizes a client may report, (width, height)
TermSizes == {<<"80", "24">>, <<"120", "40">>}

\* the terminal size of the PTY request
PtySizes == {<<"80", "24">>}

pty_requested(term_size) ==
    /\ conn = "open" /\ LoopFree /\ ses.state = "created" /\ ~ses.term_type
    /\ ses' = [ses EXCEPT !.term_type = TRUE,
                          !.initial_term_size = term_size,
                          !.term_size = term_size]
    /\ UNCHANGED <<clusterVars, operatorVars, gatewayVars, task, chan, procs, menuVars>>

\* session_started: agent forwarding is recorded and the task of the mode created
session_started(agent) ==
    /\ conn = "open" /\ LoopFree /\ ses.state = "created"
    /\ ses' = [ses EXCEPT !.state = "started", !.agent = agent]
    /\ task' = IF ses.target_type \in {"instance", "template"}
               THEN [NoTask EXCEPT !.m = "start"]
               ELSE [NoTask EXCEPT !.m = "tui"]
    /\ UNCHANGED <<clusterVars, operatorVars, gatewayVars, chan, procs, menuVars>>

\* connection_lost that cancels nothing
connection_lost_silent ==
    /\ conn = "open" /\ LoopFree /\ ses.state = "started"
    /\ conn' = "lost"
    /\ ses' = [ses EXCEPT !.state = "lost"]
    /\ chan' = [chan EXCEPT !.open = FALSE]
    /\ UNCHANGED <<clusterVars, operatorVars, allow_any, handle, srv, auth, fwd,
                   tunnels, task, procs, menuVars>>

\* WhistlerSession.connection_lost: the tasks that exist are cancelled
connection_lost ==
    /\ conn = "open" /\ LoopFree /\ ses.state = "started"
    /\ conn' = "lost"
    /\ ses' = [ses EXCEPT !.state = "lost"]
    /\ chan' = [chan EXCEPT !.open = FALSE]
    /\ task' = [task EXCEPT
                   !.cancel_m = (task.m \notin {"none", "done"}),
                   !.agent = IF @ = "running" THEN "cancelled" ELSE @]
    /\ UNCHANGED <<clusterVars, operatorVars, allow_any, handle, srv, auth, fwd,
                   tunnels, procs, menuVars>>

\* self._app: the menu application of a session in "tui" mode
has_app(s) == s.target_type = "tui" /\ s.state \in {"started", "lost"}

\* the leading-edge test that takes every event for a leading edge
always_leading(s) == TRUE

\* "if not self._resize_timer": no cooldown is running
leading_edge(s) == ~s._resize_timer

\* _process_resize: post Resize(pending) to the app and remember it
_process_resize(s) ==
    IF has_app(s) /\ s._pending_size # None
    THEN [s EXCEPT !.posts = Append(@, s._pending_size),
                   !._last_processed_size = s._pending_size]
    ELSE s

\* terminal_size_changed(width, height, ...): with an app the event is
\* coalesced; with a PTY master the window size of the PTY is set
terminal_size_changed(size) ==
    /\ conn = "open" /\ LoopFree /\ ses.state = "started"
    /\ ses.resizes < MaxResizes
    /\ LET counted == [ses EXCEPT !.resizes = @ + 1, !.term_size = size]
           pending == [counted EXCEPT !._pending_size = size]
       IN  ses' = IF has_app(ses)
                  THEN IF leading_edge(ses)
                       THEN [_process_resize(pending) EXCEPT
                                !._resize_timer = TRUE,
                                !.lead_at = Len(ses.posts),
                                !.expired = 0]
                       ELSE pending
                  ELSE IF procs.shell = "running" /\ procs.exec.pty
                  THEN [counted EXCEPT !.winsize = size]
                  ELSE counted
    /\ UNCHANGED <<clusterVars, operatorVars, gatewayVars, task, chan, procs, menuVars>>

\* _resize_cooldown_expired: the call_later(0.1) callback
_resize_cooldown_expired ==
    /\ ses._resize_timer /\ LoopFree
    /\ ses.expired < MaxResizes
    /\ LET s == [ses EXCEPT !.expired = @ + 1]
       IN  ses' = IF s._pending_size # s._last_processed_size
                  THEN [_process_resize(s) EXCEPT !._resize_timer = TRUE]
                  ELSE [s EXCEPT !._resize_timer = FALSE]
    /\ UNCHANGED <<clusterVars, operatorVars, gatewayVars, task, chan, procs, menuVars>>

\* the direct-TCP forward request of a client
ConnectionRequested(dest_host, spawned) ==
    /\ conn = "open" /\ LoopFree
    /\ LET r == connection_requested(srv, dest_host, spawned)
       IN  /\ fwd' = [host |-> dest_host, result |-> r.result, spawned |-> spawned,
                      name |-> srv.active_instance_name,
                      seen |-> find_instance(get_user_instances(srv.username),
                                             srv.active_instance_name)]
           /\ tunnels' = tunnels \cup r.tunnel
    /\ UNCHANGED <<clusterVars, operatorVars, allow_any, handle, conn, srv, auth,
                   sessionVars, menuVars>>

\* what get_user_instances can do to its caller: answer, answer [] after an
\* ApiException it swallowed, or raise (the API server cannot be reached)
ResolveFaults == {"none", "api_error", "raise"}

\* instances = get_user_instances(username); instance = next((i ... name), None)
resolve(name, fault) ==
    IF fault = "api_error" THEN NoInstance
    ELSE find_instance(get_user_instances(ses.username), name)

\* task.cancel() was called on the coroutine and not yet delivered
Cancelled(who) == IF who = "main" THEN task.cancel_m ELSE task.cancel_i

ConnSleeps == {"term_sleep", "ready_sleep", "agent_sleep"}

InnerFinished == task.c \in {"returned", "raised", "cancelled"}

\* the connect logic is suspended in an await of its own
ConnSuspended ==
    /\ LoopFree
    /\ task.c \in ConnSleeps
    /\ ConnTask = "main" => task.m = "connect"

\* the event loop starts the session task (or cancels it before its first step)
TaskStart ==
    /\ task.m = "start" /\ LoopFree
    /\ task' = IF task.cancel_m
               THEN [task EXCEPT !.m = "done", !.exc = "cancelled", !.cancel_m = FALSE]
               ELSE [task EXCEPT !.run = "main",
                                 !.m = IF ses.target_type = "instance"
                                       THEN "connect_entry" ELSE "ephemeral_entry"]
    /\ UNCHANGED <<clusterVars, operatorVars, gatewayVars, ses, chan, procs, menuVars>>

\* _connect_to_instance up to its first await: the PTY variant starts the
\* loading app and the task of _connect_to_instance_with_app
ConnectEntry(fault) ==
    /\ task.m = "connect_entry" /\ task.run = "main"
    /\ IF fault = "raise"
       THEN /\ task' = main_raise(task, "error")
            /\ UNCHANGED ses
       ELSE LET inst == resolve(ses.target_name, fault)
            IN  /\ ses' = [ses EXCEPT !.instance = inst, !.seen = inst]
                /\ task' = IF ses.term_type
                           THEN [task EXCEPT !.m = "app_wait", !.c = "start",
                                             !.app = "running", !.run = "none"]
                           ELSE [task EXCEPT !.m = "connect", !.c = "check"]
    /\ UNCHANGED <<clusterVars, operatorVars, gatewayVars, chan, procs, menuVars>>

\* _create_and_connect_ephemeral up to the branch on term_type
EphemeralEntry(hex_id, fault) ==
    /\ task.m = "ephemeral_entry" /\ task.run = "main"
    /\ IF fault = "raise"
       THEN /\ task' = [task EXCEPT !.m = "done", !.exc = "error", !.run = "none"]
            /\ ses' = [ses EXCEPT !.is_ephemeral = TRUE]
            /\ UNCHANGED chan
       ELSE LET instance_name == dashed(ses.target_name, hex_id)
                template_obj == first_template(get_user_templates(ses.username),
                                               ses.target_name)
                template_ref == IF template_obj # NoTemplate
                                THEN template_obj.fullName ELSE ses.target_name
            IN  /\ ses' = [ses EXCEPT !.is_ephemeral = TRUE,
                                      !.instance_name = instance_name,
                                      !.template_ref = template_ref]
                /\ IF ses.term_type
                   THEN /\ task' = [task EXCEPT !.m = "app_wait", !.c = "start",
                                                !.app = "running", !.run = "none"]
                        /\ UNCHANGED chan
                   ELSE /\ task' = [task EXCEPT !.m = "ephemeral_add"]
                        /\ chan' = chan_write(chan, "creating")
    /\ UNCHANGED <<clusterVars, operatorVars, gatewayVars, procs, menuVars>>

\* non-PTY: add_instance(username, template_ref, instance_name)
EphemeralAdd(fault) ==
    /\ task.m = "ephemeral_add" /\ task.run = "main"
    /\ nextUid <= MaxUid
    /\ LET r == add_instance(ses.username, ses.template_ref, ses.instance_name,
                             FALSE, fault)
       IN  /\ namespaces' = r.namespaces
           /\ policies' = r.policies
           /\ instances' = r.instances
           /\ events' = r.events
           /\ nextUid' = r.nextUid
           /\ ses' = [ses EXCEPT !.created = r.ret,
                                 !.target_name = IF r.ret = "True"
                                                 THEN ses.instance_name ELSE @]
           /\ IF r.ret = "True"
              THEN /\ task' = [task EXCEPT !.m = "connect_entry"]
                   /\ UNCHANGED chan
              ELSE IF r.ret = "False"
              THEN /\ task' = [task EXCEPT !.m = "done", !.run = "none"]
                   /\ chan' = chan_exit(chan_write(chan, "failed_to_create"), "1")
              ELSE /\ task' = [task EXCEPT !.m = "done", !.exc = "error",
                                           !.run = "none"]
                   /\ UNCHANGED chan
    /\ UNCHANGED <<pvcs, templates, pods, handlers, outcome, resumes, gatewayVars,
                   procs, menuVars>>

\* the event loop starts the task created beside the loading app
InnerStart ==
    /\ task.c = "start" /\ LoopFree
    /\ task' = IF task.cancel_i
               THEN [task EXCEPT !.c = "cancelled", !.cancel_i = FALSE]
               ELSE [task EXCEPT !.run = "inner",
                                 !.c = IF ses.is_ephemeral THEN "create"
                                       ELSE "resolve"]
    /\ UNCHANGED <<clusterVars, operatorVars, gatewayVars, ses, chan, procs, menuVars>>

\* PTY: create_task() up to _connect_to_instance_with_app
InnerCreate(fault) ==
    /\ task.c = "create" /\ task.run = "inner"
    /\ nextUid <= MaxUid
    /\ LET r == add_instance(ses.username, ses.template_ref, ses.instance_name,
                             TRUE, fault)
       IN  /\ namespaces' = r.namespaces
           /\ policies' = r.policies
           /\ instances' = r.instances
           /\ events' = r.events
           /\ nextUid' = r.nextUid
           /\ ses' = [ses EXCEPT !.created = r.ret,
                                 !.target_name = IF r.ret = "True"
                                                 THEN ses.instance_name ELSE @]
           /\ IF r.ret = "True"
              THEN /\ task' = [task EXCEPT !.c = "resolve"]
                   /\ UNCHANGED chan
              ELSE IF r.ret = "False"
              THEN /\ task' = conn_return_none(request_exit(task))
                   /\ chan' = chan_exit(chan_write(chan, "failed_to_create"), "1")
              ELSE /\ task' = conn_raise(task, "error")
                   /\ UNCHANGED chan
    /\ UNCHANGED <<pvcs, templates, pods, handlers, outcome, resumes, gatewayVars,
                   procs, menuVars>>

\* _connect_to_instance_with_app resolves the instance itself
InnerResolve(fault) ==
    /\ task.c = "resolve" /\ task.run = "inner"
    /\ IF fault = "raise"
       THEN /\ task' = conn_raise(task, "error")
            /\ UNCHANGED ses
       ELSE LET inst == resolve(ses.target_name, fault)
            IN  /\ ses' = [ses EXCEPT !.instance = inst, !.seen = inst]
                /\ task' = [task EXCEPT !.c = "check"]
    /\ UNCHANGED <<clusterVars, operatorVars, gatewayVars, chan, procs, menuVars>>

\* "if not instance: ... return", pod_name = instance.get("podName"), and the
\* entry into the wait for a terminating pod
ConnectCheck ==
    /\ task.c = "check" /\ task.run = ConnTask
    /\ IF ses.instance = NoInstance
       THEN /\ task' = conn_return_none(request_exit(task))
            /\ chan' = chan_exit(chan_write(chan, "not_found"), "1")
            /\ UNCHANGED ses
       ELSE /\ ses' = [ses EXCEPT !.pod_name = ses.instance.podName]
            /\ IF ses.instance.status = "Terminating"
               THEN /\ task' = [task EXCEPT !.c = "term_sleep", !.run = "none"]
                    /\ chan' = IF ses.term_type THEN chan
                               ELSE chan_write(chan, "waiting_to_terminate")
               ELSE /\ task' = [task EXCEPT !.c = "after_term"]
                    /\ UNCHANGED chan
    /\ UNCHANGED <<clusterVars, operatorVars, gatewayVars, procs, menuVars>>

\* while instance and instance.get("status") == "Terminating": sleep(0.5),
\* resolve again; after the loop "if instance: pod_name = ..."
TermPoll(fault) ==
    /\ ConnSuspended /\ task.c = "term_sleep" /\ ~Cancelled(ConnTask)
    /\ IF fault = "raise"
       THEN /\ task' = conn_raise(task, "error")
            /\ UNCHANGED ses
       ELSE LET inst == resolve(ses.target_name, fault)
            IN  IF inst # NoInstance /\ inst.status = "Terminating"
                THEN /\ ses' = [ses EXCEPT !.instance = inst, !.seen = inst]
                     /\ UNCHANGED task
                ELSE /\ ses' = [ses EXCEPT !.instance = inst, !.seen = inst,
                                    !.pod_name = IF inst # NoInstance
                                                 THEN inst.podName ELSE @]
                     /\ task' = [task EXCEPT !.c = "after_term", !.run = ConnTask]
    /\ UNCHANGED <<clusterVars, operatorVars, gatewayVars, chan, procs, menuVars>>

\* "if not pod_name or (instance and status != 'Running')": the patch of the
\* annotation whistler.io/last-connect in self.config_manager.namespace, any
\* exception of it swallowed, and the entry into the readiness wait
AfterTerm ==
    /\ task.c = "after_term" /\ task.run = ConnTask
    /\ IF ses.pod_name = None
          \/ (ses.instance # NoInstance /\ ses.instance.status # "Running")
       THEN LET full_cr_name == dashed(ses.username, ses.target_name)
                r == patch_instance_annotation(SystemNS, full_cr_name)
            IN  /\ instances' = r.instances
                /\ events' = r.events
                /\ ses' = [ses EXCEPT !.patched = r.ret, !.elapsed = 0,
                                      !.last_status = "None"]
                /\ task' = [task EXCEPT !.c = "wait_iter"]
       ELSE /\ task' = [task EXCEPT !.c = "bind"]
            /\ UNCHANGED <<instances, events, ses>>
    /\ UNCHANGED <<namespaces, policies, pvcs, templates, pods, nextUid, handlers,
                   outcome, resumes, gatewayVars, chan, procs, menuVars>>

\* one iteration of _wait_for_pod / _wait_for_pod_with_app
WaitIter(fault) ==
    /\ task.c = "wait_iter" /\ task.run = ConnTask
    /\ IF ses.elapsed >= TimeoutTicks
       THEN \* return None
            /\ ses' = [ses EXCEPT !.pod_name = None]
            /\ task' = [task EXCEPT !.c = "bind"]
            /\ UNCHANGED chan
       ELSE IF fault = "raise"
       THEN /\ task' = conn_raise(task, "error")
            /\ UNCHANGED <<ses, chan>>
       ELSE LET inst == resolve(ses.target_name, fault)
            IN  IF inst # NoInstance /\ inst.status = "Running"
                   /\ inst.podName # None
                THEN /\ ses' = [ses EXCEPT !.seen = inst, !.pod_name = inst.podName]
                     /\ task' = [task EXCEPT !.c = "bind"]
                     /\ UNCHANGED chan
                ELSE /\ ses' = [ses EXCEPT !.seen = inst,
                                    !.last_status = IF inst # NoInstance
                                                    THEN inst.status ELSE @]
                     /\ task' = [task EXCEPT !.c = "ready_sleep", !.run = "none"]
                     /\ chan' = IF ~ses.term_type /\ inst # NoInstance
                                   /\ inst.status # ses.last_status
                                THEN chan_write(chan, "instance_status")
                                ELSE chan
    /\ UNCHANGED <<clusterVars, operatorVars, gatewayVars, procs, menuVars>>

\* await asyncio.sleep(0.5) of the readiness wait is over
ReadyWake ==
    /\ ConnSuspended /\ task.c = "ready_sleep" /\ ~Cancelled(ConnTask)
    /\ ses' = [ses EXCEPT !.elapsed = @ + 1]
    /\ task' = [task EXCEPT !.c = "wait_iter", !.run = ConnTask]
    /\ UNCHANGED <<clusterVars, operatorVars, gatewayVars, chan, procs, menuVars>>

\* "if pod_name:" the server context is bound to the instance and the agent
\* bridge started; else "Failed to start instance" and exit status 1
Bind ==
    /\ task.c = "bind" /\ task.run = ConnTask
    /\ LET t == request_exit(task)
       IN  IF ses.pod_name # None
           THEN /\ srv' = [srv EXCEPT !.active_instance_name = ses.target_name]
                /\ ses' = [ses EXCEPT !.bound = ses.pod_name]
                /\ task' = IF ses.agent
                           THEN [t EXCEPT !.agent = "running", !.c = "agent_sleep",
                                          !.run = "none"]
                           ELSE conn_return_pod(t)
                /\ UNCHANGED chan
           ELSE /\ chan' = chan_exit(chan_write(chan, "failed_to_start"), "1")
                /\ task' = conn_return_none(t)
                /\ UNCHANGED <<srv, ses>>
    /\ UNCHANGED <<clusterVars, operatorVars, allow_any, handle, conn, auth, fwd,
                   tunnels, procs, menuVars>>

\* await asyncio.sleep(0.5) after the agent bridge was started is over
AgentWake ==
    /\ ConnSuspended /\ task.c = "agent_sleep" /\ ~Cancelled(ConnTask)
    /\ task' = conn_return_pod(task)
    /\ UNCHANGED <<clusterVars, operatorVars, gatewayVars, ses, chan, procs, menuVars>>

\* _bridge_agent: after the socat probe and the connection to the local agent
\* socket, "kubectl exec -i <pod> ... socat UNIX-LISTEN:..." is spawned; a
\* cancellation of the bridge ends its forwarders and nothing else
BridgeSpawn ==
    /\ task.agent = "running" /\ LoopFree /\ procs.bridge = "none"
    /\ procs' = [procs EXCEPT !.bridge = "running"]
    /\ UNCHANGED <<clusterVars, operatorVars, gatewayVars, ses, task, chan, menuVars>>

\* await loading_app.run_async() returns once the app was asked to exit
AppExited ==
    /\ task.m = "app_wait" /\ LoopFree /\ ~task.cancel_m
    /\ task.app = "exit_requested"
    /\ task' = [task EXCEPT !.app = "exited", !.m = "task_wait"]
    /\ UNCHANGED <<clusterVars, operatorVars, gatewayVars, ses, chan, procs, menuVars>>

\* pod_name = await task; if pod_name: _run_pod_shell(pod_name)
TaskJoined ==
    /\ task.m = "task_wait" /\ LoopFree /\ ~task.cancel_m
    /\ InnerFinished
    /\ task' = IF task.c = "returned" /\ ses.bound # None
               THEN [task EXCEPT !.m = "shell", !.s = "motd", !.run = "main"]
               ELSE IF task.c = "returned"
               THEN main_return(task)
               ELSE main_raise(task, IF task.c = "raised" THEN "error"
                                     ELSE "cancelled")
    /\ UNCHANGED <<clusterVars, operatorVars, gatewayVars, ses, chan, procs, menuVars>>

\* _run_pod_shell that starts the shell without a MOTD
send_nothing(ch, instance) == ch

\* self._chan.write(formatted_motd): _generate_motd(instance, ...) or the
\* "(Instance details not found for MOTD)" text, neither of them empty
send_motd(ch, instance) ==
    chan_write(ch, IF instance # NoInstance THEN "motd" ELSE "motd_not_found")

\* _run_pod_shell before its try: the MOTD is resolved and written, then
\* await asyncio.sleep(0.5)
ShellMotd(fault) ==
    /\ task.m = "shell" /\ task.s = "motd" /\ task.run = "main"
    /\ IF fault = "raise"
       THEN /\ task' = main_raise(task, "error")
            /\ UNCHANGED chan
       ELSE /\ chan' = send_motd(chan, resolve(ses.target_name, fault))
            /\ task' = [task EXCEPT !.s = "motd_sleep", !.run = "none"]
    /\ UNCHANGED <<clusterVars, operatorVars, gatewayVars, ses, procs, menuVars>>

\* kubectl exec -n <self.config_manager.namespace> -i[t] <pod_name> -- ...:
\* with a PTY pty.openpty() first; the subprocess is spawned, or the spawn
\* raises into "except Exception"
ShellSpawn(spawned) ==
    /\ task.m = "shell" /\ task.s = "motd_sleep" /\ LoopFree /\ ~task.cancel_m
    /\ LET opened == [procs EXCEPT !.master = IF ses.term_type THEN "open" ELSE @]
       IN  IF spawned
           THEN /\ procs' = [opened EXCEPT
                                !.shell = "running",
                                !.exec = [pod |-> ses.bound, ns |-> SystemNS,
                                          pty |-> ses.term_type]]
                /\ task' = [task EXCEPT !.s = "wait"]
           ELSE /\ procs' = opened
                /\ task' = [task EXCEPT !.s = "cleanup", !.run = "main"]
    \* "Set initial size": TIOCSWINSZ on the new master with initial_term_size
    /\ ses' = [ses EXCEPT !.winsize = IF ses.term_type
                                      THEN ses.initial_term_size ELSE @]
    /\ UNCHANGED <<clusterVars, operatorVars, gatewayVars, chan, menuVars>>

\* read_pty / forward_output: a chunk the subprocess wrote is forwarded with
\* self._chan.write(data)
ShellOutput ==
    /\ task.m = "shell" /\ task.s = "wait" /\ LoopFree
    /\ procs.shell = "running"
    /\ Len(SelectSeq(chan.out, LAMBDA x : x = "shell_out")) < MaxChunks
    /\ chan' = chan_write(chan, "shell_out")
    /\ UNCHANGED <<clusterVars, operatorVars, gatewayVars, ses, task, procs, menuVars>>

\* the wait of _run_pod_shell ends: the subprocess ended (the shell exits or
\* crashes, the pod is gone or was never there), or with a PTY read_pty hit
\* EOF or an OSError while the subprocess still runs
ShellExits(pty_closed) ==
    /\ task.m = "shell" /\ task.s = "wait" /\ LoopFree /\ ~task.cancel_m
    /\ pty_closed => procs.master = "open"
    /\ procs' = IF pty_closed THEN procs ELSE [procs EXCEPT !.shell = "exited"]
    /\ task' = [task EXCEPT !.s = "cleanup", !.run = "main"]
    /\ UNCHANGED <<clusterVars, operatorVars, gatewayVars, ses, chan, menuVars>>

\* the finally of _run_pod_shell: the PTY master is closed, the subprocess is
\* terminated if it still runs and self._chan.exit(0), which raises on a
\* closed channel
ShellCleanup ==
    /\ task.m = "shell" /\ task.s = "cleanup" /\ task.run = "main"
    /\ procs' = [procs EXCEPT !.master = IF @ = "open" THEN "closed" ELSE @,
                              !.shell = IF @ = "running" THEN "terminated" ELSE @]
    /\ chan' = chan_exit(chan, "0")
    /\ LET e == IF ~chan.open THEN "error" ELSE task.exc
           t == [task EXCEPT !.s = "done"]
       IN  task' = IF e = "none" THEN main_return(t) ELSE main_raise(t, e)
    /\ UNCHANGED <<clusterVars, operatorVars, gatewayVars, ses, menuVars>>

\* a pending cancellation is delivered to the session task at its await
CancelMain ==
    /\ LoopFree /\ task.cancel_m
    /\ \/ /\ task.m \in {"app_wait", "task_wait"}
          \* except asyncio.CancelledError: task.cancel(); raise
          /\ task' = main_raise([task EXCEPT !.cancel_m = FALSE,
                                             !.cancel_i = ~InnerFinished],
                                "cancelled")
          /\ UNCHANGED procs
       \/ /\ task.m = "connect" /\ task.c \in ConnSleeps
          /\ task' = main_raise([task EXCEPT !.cancel_m = FALSE, !.c = "cancelled"],
                                "cancelled")
          /\ UNCHANGED procs
       \/ /\ task.m = "shell" /\ task.s = "motd_sleep"
          /\ task' = main_raise([task EXCEPT !.cancel_m = FALSE, !.s = "cancelled"],
                                "cancelled")
          /\ UNCHANGED procs
       \/ /\ task.m = "shell" /\ task.s = "wait"
          /\ task' = [task EXCEPT !.cancel_m = FALSE, !.s = "cleanup",
                                  !.exc = "cancelled", !.run = "main"]
          /\ UNCHANGED procs
    /\ UNCHANGED <<clusterVars, operatorVars, gatewayVars, ses, chan, menuVars>>

\* a pending cancellation is delivered to the task beside the loading app
CancelInner ==
    /\ LoopFree /\ task.cancel_i
    /\ ses.term_type /\ task.c \in ConnSleeps
    /\ task' = [task EXCEPT !.cancel_i = FALSE, !.c = "cancelled"]
    /\ UNCHANGED <<clusterVars, operatorVars, gatewayVars, ses, chan, procs, menuVars>>

\* the finally of _create_and_connect_ephemeral: the cleanup line,
\* delete_instance(username, instance_name) and exit(0), each in a try of
\* its own; without a PTY "except Exception" first writes the error
EphemeralFinally(fault) ==
    /\ task.m = "finally" /\ task.run = "main"
    /\ LET swallowed == ~ses.term_type /\ task.exc = "error" /\ chan.open
           c1 == IF swallowed THEN chan_write(chan, "error_connecting") ELSE chan
           r == delete_instance(ses.username, ses.instance_name, fault)
       IN  /\ chan' = chan_exit(chan_write(c1, "cleaning_up"), "0")
           /\ instances' = r.instances
           /\ events' = r.events
           /\ ses' = [ses EXCEPT !.cleanup = r.ret]
           /\ task' = [task EXCEPT !.m = "done", !.run = "none",
                                   !.exc = IF swallowed THEN "none" ELSE @]
    /\ UNCHANGED <<namespaces, policies, pvcs, templates, pods, nextUid, handlers,
                   outcome, resumes, gatewayVars, procs, menuVars>>

\* _run_app: the menu ends (the user quits, or the task was cancelled)
RunAppEnds ==
    /\ task.m = "tui" /\ LoopFree
    /\ task' = [task EXCEPT !.m = "done", !.cancel_m = FALSE]
    /\ chan' = chan_exit(chan, "0")
    /\ UNCHANGED <<clusterVars, operatorVars, gatewayVars, ses, procs, menuVars>>

---------------------------------------------------------------------------
(* tui.py: the menu of another connection of a user                        *)

MenuUsers == {Alice}

\* what the user types into InstanceCreateScreen
MenuNames == {<<"d">>, <<"n">>}

\* action_instantiate / do_create: the row key of the templates table is the
\* display name of the template
MenuCreateInstance(username, i, instance_name, preemptible, fault) ==
    /\ nextUid <= MaxUid
    /\ i \in 1..Len(get_user_templates(username))
    /\ LET template_name == get_user_templates(username)[i].name
           r == add_instance(username, template_name, instance_name, preemptible,
                             fault)
       IN  /\ namespaces' = r.namespaces
           /\ policies' = r.policies
           /\ instances' = r.instances
           /\ events' = r.events
           /\ nextUid' = r.nextUid
           /\ api' = [op |-> "add_instance", user |-> username,
                      name |-> instance_name, template |-> template_name,
                      ret |-> r.ret]
    /\ UNCHANGED <<saves, pvcs, templates, pods, handlers, outcome, resumes, gatewayVars,
                   sessionVars>>

\* action_delete_instance / do_delete on a row of the instances table
MenuDeleteInstance(username, instance_name, fault) ==
    /\ \E v \in get_user_instances(username) : v.name = instance_name
    /\ LET r == delete_instance(username, instance_name, fault)
       IN  /\ instances' = r.instances
           /\ events' = r.events
           /\ api' = [op |-> "delete_instance", user |-> username,
                      name |-> instance_name, template |-> None, ret |-> r.ret]
    /\ UNCHANGED <<saves, namespaces, policies, pvcs, templates, pods, nextUid, handlers,
                   outcome, resumes, gatewayVars, sessionVars>>

\* what the user types into TemplateEditScreen
MenuTemplates ==
    { [name |-> <<"t">>, image |-> "alice/tools:2"],
      [name |-> <<"w">>, image |-> "alice/web:1"],
      [name |-> <<>>,    image |-> "alice/web:1"] }

\* action_create_template / edit_template_internal: do_save
MenuSaveTemplate(username, template_data, fault) ==
    /\ \A i \in 1..Len(templates) : templates[i].rv <= MaxVersion
    /\ LET r == save_template(username, template_data, fault)
       IN  /\ namespaces' = r.namespaces
           /\ policies' = r.policies
           /\ templates' = r.templates
           /\ api' = [op |-> "save_template", user |-> username,
                      name |-> template_data.name, template |-> None,
                      ret |-> r.ret]
    /\ UNCHANGED <<saves, pvcs, instances, pods, nextUid, operatorVars, gatewayVars,
                   sessionVars>>

\* the executor threads that run save_template for the menus of one user
Savers == {1, 2}

\* no call of save_template in a thread
NoSave ==
    [pc |-> "idle", user |-> None, data |-> [name |-> <<>>, image |-> "None"],
     rv |-> 0, ret |-> "none"]

save_return(c, result) == [saves EXCEPT ![c].pc = "done", ![c].ret = result]

\* do_save: run_in_executor(save_template), up to its first read of the store
SaveStart(c, username, template_data) ==
    /\ saves[c].pc = "idle"
    /\ \A i \in 1..Len(templates) : templates[i].rv <= MaxVersion
    /\ IF template_data.name = <<>>
       THEN /\ saves' = [saves EXCEPT ![c] = [NoSave EXCEPT
                             !.pc = "done", !.user = username,
                             !.data = template_data, !.ret = "False"]]
            /\ UNCHANGED <<namespaces, policies>>
       ELSE LET ens == _ensure_user_namespace(username, "none")
            IN  /\ namespaces' = ens.namespaces
                /\ policies' = ens.policies
                /\ saves' = [saves EXCEPT ![c] = [NoSave EXCEPT
                                 !.pc = "check", !.user = username,
                                 !.data = template_data]]
    /\ UNCHANGED <<pvcs, templates, instances, pods, nextUid, operatorVars,
                   gatewayVars, sessionVars, api>>

\* save_template: get_namespaced_custom_object, "check if exists"
SaveCheck(c) ==
    /\ saves[c].pc = "check"
    /\ LET body == save_template_body(saves[c].user, saves[c].data)
       IN  saves' = [saves EXCEPT ![c].pc =
                        IF template_index(body.ns, body.name) # 0
                        THEN "read" ELSE "create"]
    /\ UNCHANGED <<clusterVars, operatorVars, gatewayVars, sessionVars, api>>

\* save_template: existing = get_namespaced_custom_object(...), whose
\* resourceVersion goes into the body
SaveRead(c) ==
    /\ saves[c].pc = "read"
    /\ LET body == save_template_body(saves[c].user, saves[c].data)
           i == template_index(body.ns, body.name)
       IN  saves' = IF i # 0
                    THEN [saves EXCEPT ![c].pc = "replace", ![c].rv = templates[i].rv]
                    ELSE [saves EXCEPT ![c].pc = "create"]
    /\ UNCHANGED <<clusterVars, operatorVars, gatewayVars, sessionVars, api>>

\* save_template: replace_namespaced_custom_object; a 404 leads to the create
\* call, any other ApiException to return False
SaveReplace(c) ==
    /\ saves[c].pc = "replace"
    /\ LET body == [save_template_body(saves[c].user, saves[c].data)
                       EXCEPT !.rv = saves[c].rv]
           r == replace_namespaced_custom_object(body)
       IN  /\ templates' = r.templates
           /\ saves' = IF r.status = "200" THEN save_return(c, "True")
                       ELSE IF r.status = "404" THEN [saves EXCEPT ![c].pc = "create"]
                       ELSE save_return(c, "False")
    /\ UNCHANGED <<namespaces, policies, pvcs, instances, pods, nextUid,
                   operatorVars, gatewayVars, sessionVars, api>>

\* save_template: create_namespaced_custom_object after a 404
SaveCreate(c) ==
    /\ saves[c].pc = "create"
    /\ LET r == create_namespaced_custom_object(
                    save_template_body(saves[c].user, saves[c].data))
       IN  /\ templates' = r.templates
           /\ saves' = save_return(c, IF r.status = "201" THEN "True" ELSE "False")
    /\ UNCHANGED <<namespaces, policies, pvcs, instances, pods, nextUid,
                   operatorVars, gatewayVars, sessionVars, api>>

\* do_save: the result is notified and the thread is free again
SaveNotified(c) ==
    /\ saves[c].pc = "done"
    /\ saves' = [saves EXCEPT ![c] = NoSave]
    /\ UNCHANGED <<clusterVars, operatorVars, gatewayVars, sessionVars, api>>

\* _refresh_async: the templates table is filled from get_user_templates
MenuListTemplates(username) ==
    /\ api' = [op |-> "get_user_templates", user |-> username, name |-> None,
               template |-> None, ret |-> "returned",
               items |-> get_user_templates(username)]
    /\ UNCHANGED <<clusterVars, operatorVars, gatewayVars, sessionVars, saves>>

\* _refresh_async: the instances table is filled from get_user_instances
MenuListInstances(username, fault) ==
    /\ LET r == get_user_instances_result(username, fault)
       IN  api' = [op |-> "get_user_instances", user |-> username, name |-> None,
                   template |-> None, ret |-> r.ret, fault |-> fault,
                   items |-> r.items]
    /\ UNCHANGED <<clusterVars, operatorVars, gatewayVars, sessionVars, saves>>

---------------------------------------------------------------------------
(* The system: one client connection beside the cluster and the operator   *)

\* alice's instance "d" of her template a-t is declared and not yet reconciled
InstancesInit ==
    {[ns |-> _get_user_namespace(Alice), name |-> dashed(Alice, <<"d">>),
      templateRef |-> dashed(Alice, <<"t">>), user |-> Alice, preemptible |-> TRUE,
      uid |-> 1, annotated |-> FALSE]}

\* no handler runs and a client is about to present one of the handles hs
Idle(hs) ==
    /\ handlers = {}
    /\ outcome = <<>>
    /\ resumes = 0
    /\ allow_any \in BOOLEAN
    /\ handle \in hs
    /\ conn = "auth"
    /\ srv = NewServer
    /\ auth = [via |-> "none", ok |-> FALSE, key |-> "none"]
    /\ fwd = [host |-> "none", result |-> "none", spawned |-> FALSE, name |-> None,
              seen |-> NoInstance]
    /\ tunnels = {}
    /\ ses = NoSession
    /\ task = NoTask
    /\ chan = NewChannel
    /\ procs = [shell |-> "none", master |-> "none", bridge |-> "none",
                exec |-> [pod |-> None, ns |-> None, pty |-> FALSE]]
    /\ api = [op |-> "none", user |-> None, name |-> None, template |-> None,
              ret |-> "none"]
    /\ saves = [c \in Savers |-> NoSave]

\* the system with the instances insts declared
Boot(insts, hs) ==
    /\ namespaces = {SystemNS, _get_user_namespace(Alice), _get_user_namespace(Bob)}
    /\ policies = {_get_user_namespace(Alice), _get_user_namespace(Bob)}
    /\ pvcs = {}
    /\ templates = TemplatesInit
    /\ instances = insts
    /\ pods = {}
    /\ nextUid = 2
    /\ events = {<<i.ns, i.name>> : i \in insts}
    /\ Idle(hs)

\* a cluster the gateway has not acted on for any user: the system namespace
\* with the system templates
Fresh(hs) ==
    /\ namespaces = {SystemNS}
    /\ policies = {}
    /\ pvcs = {}
    /\ templates = SelectSeq(TemplatesInit, LAMBDA t : t.ns = SystemNS)
    /\ instances = {}
    /\ pods = {}
    /\ nextUid = 1
    /\ events = {}
    /\ Idle(hs)

\* the operator while the API server answers its calls
OperatorSteps ==
    \/ \E key \in events : ReconcileStart(key, "none")
    \/ \E h \in handlers : EnsurePvcRead(h, "none")
    \/ \E h \in handlers : EnsurePvcCreate(h)
    \/ \E h \in handlers : PodCreate(h, "none")
    \/ \E key \in events : delete_fn(key)

\* the operator with failing API calls
OperatorFaults ==
    \/ \E key \in events : ReconcileStart(key, "read_error")
    \/ \E h \in handlers : EnsurePvcRead(h, "read_error")
    \/ \E h \in handlers : PodCreate(h, "create_error")

\* the operator after a pod create answered 409
OperatorConflict == \E h \in handlers : PodCheck(h)

KubeCollects ==
    \/ \E p \in pods : KubeGC(p)
    \/ \E p \in pods : PodRemoved(p)

Kubernetes ==
    \/ KubeCollects
    \/ \E p \in pods : PodStarts(p)
    \/ \E p \in pods : PodPreempted(p)

\* the menu creates an instance, its "preemptible" box set as in boxes
MenuCreates(boxes) ==
    \E u \in MenuUsers : \E i \in 1..Len(get_user_templates(u)) :
    \E n \in MenuNames : \E pr \in boxes : \E fault \in AddFaults :
        MenuCreateInstance(u, i, n, pr, fault)

MenuLists ==
    \E u \in MenuUsers : \E fault \in ListFaults : MenuListInstances(u, fault)

MenuDeletes ==
    \E u \in MenuUsers : \E n \in MenuNames : MenuDeleteInstance(u, n, "none")

MenuDeleteFails ==
    \E u \in MenuUsers : \E n \in MenuNames :
        MenuDeleteInstance(u, n, "delete_error")

MenuSaves ==
    \E u \in MenuUsers : \E d \in MenuTemplates : \E fault \in SaveFaults :
        MenuSaveTemplate(u, d, fault)

Authentication ==
    \/ ValidatePassword
    \/ \E key \in OfferedKeys : ValidatePublicKey(key)

Forwarding ==
    \E h \in ForwardHosts : \E spawned \in BOOLEAN : ConnectionRequested(h, spawned)

Channel ==
    \/ session_requested
    \/ \E term_size \in PtySizes : pty_requested(term_size)
    \/ \E agent \in BOOLEAN : session_started(agent)
    \/ connection_lost

\* the steps of _connect_to_instance[_with_app], _wait_for_pod[_with_app]
\* and _run_pod_shell, with the faults the API server and the subprocess
\* spawn may show
ConnectSteps(faults, spawns) ==
    \/ TaskStart
    \/ \E fault \in faults : ConnectEntry(fault)
    \/ InnerStart
    \/ \E fault \in faults : InnerResolve(fault)
    \/ ConnectCheck
    \/ \E fault \in faults : TermPoll(fault)
    \/ AfterTerm
    \/ \E fault \in faults : WaitIter(fault)
    \/ ReadyWake
    \/ Bind
    \/ AgentWake
    \/ AppExited
    \/ TaskJoined
    \/ \E fault \in faults : ShellMotd(fault)
    \/ \E spawned \in spawns : ShellSpawn(spawned)
    \/ \E pty_closed \in BOOLEAN : ShellExits(pty_closed)
    \/ ShellCleanup

Cancellation ==
    \/ CancelMain
    \/ CancelInner

\* the steps of _create_and_connect_ephemeral
EphemeralSteps ==
    \/ \E hex_id \in HexIds : \E fault \in {"none", "raise"} :
           EphemeralEntry(hex_id, fault)
    \/ \E fault \in AddFaults : EphemeralAdd(fault)
    \/ \E fault \in AddFaults : InnerCreate(fault)
    \/ \E fault \in {"none", "delete_error"} : EphemeralFinally(fault)

\* the handles that name the menu or an instance, and those that name a template
MenuHandles == {h \in Handles : Len(split(h)) = 1}

TemplateHandles ==
    {h \in Handles : Len(split(h)) > 1
                     /\ \E i \in 1..Len(TemplatesInit) :
                            /\ TemplatesInit[i].user \in {SystemOwner, split(h)[1]}
                            /\ template_view(TemplatesInit[i], split(h)[1]).name
                                   = join(Tail(split(h)))}

InstanceHandles == (Handles \ MenuHandles) \ TemplateHandles

\* one connection whose handle names the menu or an instance, beside the
\* cluster, the operator and the menu of another connection
Init == Boot(InstancesInit, MenuHandles \cup InstanceHandles)

Next ==
    \/ Authentication
    \/ Channel
    \/ ConnectSteps(ResolveFaults, BOOLEAN)
    \/ ShellOutput
    \/ Cancellation
    \/ RunAppEnds
    \/ OperatorSteps
    \/ Kubernetes
    \/ MenuDeletes

Spec == Init /\ [][Next]_vars

\* one connection whose handle names a template
InitEphemeral == Boot({}, TemplateHandles)

NextEphemeral ==
    \/ Authentication
    \/ Channel
    \/ EphemeralSteps
    \/ ConnectSteps(ResolveFaults, BOOLEAN)
    \/ Cancellation
    \/ OperatorSteps
    \/ Kubernetes

SpecEphemeral == InitEphemeral /\ [][NextEphemeral]_vars

\* a fresh cluster: alice saves her template t from a menu and logs in with
\* the handle that names it
InitUnguarded == Fresh({dashed(Alice, <<"t">>)}) /\ ~allow_any

NextUnguarded ==
    \/ NextEphemeral
    \/ \E fault \in SaveFaults :
           MenuSaveTemplate(Alice, [name |-> <<"t">>, image |-> "alice/tools:2"], fault)

SpecUnguarded == InitUnguarded /\ [][NextUnguarded]_vars

\* alice logs in with the handle of her template t while, from a menu, she
\* creates an instance under the name the session mints (InstanceCreateScreen
\* takes any name)
InitMinted == Boot({}, {dashed(Alice, <<"t">>)}) /\ ~allow_any

NextMinted ==
    \/ NextEphemeral
    \/ \E i \in 1..Len(get_user_templates(Alice)) : \E hex_id \in HexIds :
           MenuCreateInstance(Alice, i, dashed(<<"t">>, hex_id), FALSE, "none")

SpecMinted == InitMinted /\ [][NextMinted]_vars

\* one connection whose handle names an instance or a template
InitModes == Boot(InstancesInit, InstanceHandles \cup TemplateHandles) /\ ~allow_any

NextModes ==
    \/ NextEphemeral
    \/ MenuDeletes

SpecModes == InitModes /\ [][NextModes]_vars

\* one connection whose handle names a template or the menu
InitLost == Boot({}, TemplateHandles \cup MenuHandles)

NextLost ==
    \/ NextEphemeral
    \/ RunAppEnds

SpecLost == InitLost /\ [][NextLost]_vars

\* one connection that authenticates and asks for forwards, no session
InitForward == Boot(InstancesInit, Handles)

NextForward ==
    \/ Authentication
    \/ Forwarding
    \/ OperatorSteps
    \/ Kubernetes
    \/ MenuDeletes

SpecForward == InitForward /\ [][NextForward]_vars

\* the instance store, the operator and the cluster without a connection
InitOperator == Boot(InstancesInit, {Alice}) /\ allow_any = FALSE

NextOperator ==
    \/ MenuCreates(BOOLEAN)
    \/ MenuDeletes
    \/ MenuDeleteFails
    \/ OperatorSteps
    \/ OperatorConflict
    \/ OperatorFaults
    \/ OperatorResume
    \/ Kubernetes

SpecOperator == InitOperator /\ [][NextOperator]_vars

\* the same while the API server answers every call of the operator, which
\* then runs each handler that is due, and the garbage collector collects
NextReconcile ==
    \/ MenuCreates({FALSE})
    \/ MenuDeletes
    \/ OperatorSteps
    \/ OperatorConflict
    \/ OperatorResume
    \/ Kubernetes

FairOperator ==
    /\ InitOperator /\ [][NextReconcile]_vars
    /\ WF_vars(OperatorSteps)
    /\ WF_vars(OperatorConflict)
    /\ WF_vars(KubeCollects)

\* two instances of alice, both of her template a-t, declared and not yet
\* reconciled: kopf runs their handlers in worker threads, interleaved
InstancesPair ==
    InstancesInit \cup
    {[ns |-> _get_user_namespace(Alice), name |-> dashed(Alice, <<"e">>),
      templateRef |-> dashed(Alice, <<"t">>), user |-> Alice, preemptible |-> FALSE,
      uid |-> 2, annotated |-> FALSE]}

InitPair ==
    /\ namespaces = {SystemNS, _get_user_namespace(Alice), _get_user_namespace(Bob)}
    /\ policies = {_get_user_namespace(Alice), _get_user_namespace(Bob)}
    /\ pvcs = {}
    /\ templates = TemplatesInit
    /\ instances = InstancesPair
    /\ pods = {}
    /\ nextUid = 3
    /\ events = {<<i.ns, i.name>> : i \in InstancesPair}
    /\ Idle({Alice})
    /\ allow_any = FALSE

NextPair ==
    \/ OperatorSteps
    \/ Kubernetes
    \/ MenuDeletes

SpecPair == InitPair /\ [][NextPair]_vars

\* alice's namespace also holds a template without spec.user (listed with
\* source system under its full name), of which she creates and deletes
\* instances from the menu
InitRecreate ==
    /\ namespaces = {SystemNS, _get_user_namespace(Alice), _get_user_namespace(Bob)}
    /\ policies = {_get_user_namespace(Alice), _get_user_namespace(Bob)}
    /\ pvcs = {}
    /\ templates = Append(TemplatesInit, TemplateCatalogue[4])
    /\ instances = {}
    /\ pods = {}
    /\ nextUid = 1
    /\ events = {}
    /\ Idle({Alice})
    /\ allow_any = FALSE

NextRecreate ==
    \/ MenuCreates({FALSE})
    \/ MenuDeletes
    \/ OperatorSteps
    \/ OperatorConflict
    \/ KubeCollects
    \/ \E p \in pods : PodStarts(p)

SpecRecreate == InitRecreate /\ [][NextRecreate]_vars

\* the operator while the API server may fail its reads and creates
NextFaulty ==
    \/ MenuCreates({FALSE})
    \/ MenuDeletes
    \/ OperatorSteps
    \/ OperatorFaults
    \/ Kubernetes

SpecFaulty == InitOperator /\ [][NextFaulty]_vars

\* the menu's listing beside the operator and the cluster
NextList ==
    \/ MenuLists
    \/ MenuCreates({FALSE})
    \/ MenuDeletes
    \/ OperatorSteps
    \/ Kubernetes

SpecList == InitOperator /\ [][NextList]_vars

\* the templates table of a menu over every selection of the catalogue
InitCatalogue ==
    /\ namespaces = {SystemNS, _get_user_namespace(Alice), _get_user_namespace(Bob)}
    /\ policies = {_get_user_namespace(Alice), _get_user_namespace(Bob)}
    /\ pvcs = {}
    /\ \E S \in SUBSET (1..Len(TemplateCatalogue)) :
           templates = SelectSeq(TemplateCatalogue,
                                 LAMBDA t : \E i \in S : TemplateCatalogue[i] = t)
    /\ instances = {}
    /\ pods = {}
    /\ nextUid = 1
    /\ events = {}
    /\ Idle({Alice})
    /\ allow_any = FALSE

NextCatalogue == \E u \in {Alice, Bob} : MenuListTemplates(u)

SpecCatalogue == InitCatalogue /\ [][NextCatalogue]_vars

\* the instance store used from the menu on a fresh cluster
InitStore == Fresh({Alice}) /\ allow_any = FALSE

NextStore ==
    \/ MenuCreates(BOOLEAN)
    \/ MenuSaves
    \/ MenuDeletes
    \/ MenuDeleteFails

SpecStore == InitStore /\ [][NextStore]_vars

\* two menus of one user saving templates at the same time
NextSave ==
    \/ \E c \in Savers : \E u \in MenuUsers : \E d \in MenuTemplates :
           SaveStart(c, u, d)
    \/ \E c \in Savers : SaveCheck(c)
    \/ \E c \in Savers : SaveRead(c)
    \/ \E c \in Savers : SaveReplace(c)
    \/ \E c \in Savers : SaveCreate(c)
    \/ \E c \in Savers : SaveNotified(c)

SpecSave == InitStore /\ [][NextSave]_vars

\* a menu session whose client resizes its window
InitResize == Boot(InstancesInit, MenuHandles)

NextResize ==
    \/ Authentication
    \/ Channel
    \/ RunAppEnds
    \/ \E size \in TermSizes : terminal_size_changed(size)
    \/ _resize_cooldown_expired

SpecResize == InitResize /\ [][NextResize]_vars

\* an instance-mode session whose client asks for forwards beside it
InitTunnel == Boot(InstancesInit, {dashed(Alice, <<"d">>)}) /\ ~allow_any

NextTunnel ==
    \/ Authentication
    \/ Channel
    \/ ConnectSteps({"none"}, {TRUE})
    \/ Cancellation
    \/ Forwarding
    \/ OperatorSteps
    \/ Kubernetes
    \/ MenuDeletes

SpecTunnel == InitTunnel /\ [][NextTunnel]_vars

\* an instance-mode session while every call is answered: the event loop
\* runs each coroutine that can run
InitWait == Boot(InstancesInit, InstanceHandles)

NextWait ==
    \/ Authentication
    \/ Channel
    \/ ConnectSteps({"none"}, {TRUE})
    \/ Cancellation
    \/ OperatorSteps
    \/ Kubernetes
    \/ MenuDeletes

FairWait ==
    /\ InitWait /\ [][NextWait]_vars
    /\ WF_vars(ConnectSteps({"none"}, {TRUE}))
    /\ WF_vars(Cancellation)

\* an instance-mode session with a PTY whose client resizes its window
InitWindow == Boot(InstancesInit, {dashed(Alice, <<"d">>)}) /\ ~allow_any

NextWindow ==
    \/ Authentication
    \/ Channel
    \/ ConnectSteps({"none"}, {TRUE})
    \/ Cancellation
    \/ \E size \in TermSizes : terminal_size_changed(size)
    \/ OperatorSteps
    \/ Kubernetes
    \/ MenuDeletes

SpecWindow == InitWindow /\ [][NextWindow]_vars

\* an instance-mode session whose agent bridge starts its exec
InitBridge == Boot(InstancesInit, {dashed(Alice, <<"d">>)}) /\ ~allow_any

NextBridge ==
    \/ Authentication
    \/ Channel
    \/ ConnectSteps({"none"}, {TRUE})
    \/ Cancellation
    \/ BridgeSpawn
    \/ OperatorSteps
    \/ Kubernetes
    \/ MenuDeletes

SpecBridge == InitBridge /\ [][NextBridge]_vars

---------------------------------------------------------------------------
(* Properties of the gateway                                               *)

handle_owner(h) == split(h)[1]

handle_suffix(h) == join(Tail(split(h)))

\* the target a handle names: the menu without a suffix, a template when the
\* suffix is the short name of a template visible to the owner, else an instance
expected_target(h) ==
    IF Len(split(h)) = 1 THEN "tui"
    ELSE IF \E i \in 1..Len(get_user_templates(handle_owner(h))) :
                get_user_templates(handle_owner(h))[i].name = handle_suffix(h)
    THEN "template"
    ELSE "instance"

\* the last forward request found its instance with a pod name and Running
C1_Resolved ==
    fwd.seen # NoInstance /\ fwd.seen.podName # None /\ fwd.seen.status = "Running"

C1_Conditions ==
    /\ fwd.host \in {"localhost", "127.0.0.1"}
    /\ fwd.name # None /\ fwd.name # <<>>
    /\ C1_Resolved

C5_KeyMatches ==
    (~allow_any /\ auth.ok) =>
        /\ auth.via = "publickey"
        /\ user_exists(handle_owner(handle))
        /\ \E line \in UsersYaml[handle_owner(handle)] : line[2] = auth.key

C5_NoSessionBeforeAuth == conn = "auth" => (ses = NoSession /\ task = NoTask)

C5_FailureInert ==
    (auth' # auth /\ ~auth'.ok) =>
        UNCHANGED <<clusterVars, operatorVars, sessionVars, conn, srv, tunnels>>

C6_HandleParsing ==
    auth.ok =>
        /\ srv.username = handle_owner(handle)
        /\ srv.target_type = expected_target(handle)
        /\ expected_target(handle) # "tui" => srv.target_name = handle_suffix(handle)

\* the bypass password path parsed a handle with a dash in its suffix
C6_Witness ==
    /\ auth.ok /\ auth.via = "password"
    /\ srv.target_type = "instance"
    /\ Len(split(handle)) = 3 /\ srv.target_name = handle_suffix(handle)

\* C7: whenever authentication succeeds with an instance-mode target, in any
\* authentication path, active_instance_name is set to the suffix when the
\* authentication returns.
C7_ActiveInstancePreseeded ==
    (auth.ok /\ srv.target_type = "instance") =>
        srv.active_instance_name = srv.target_name

---------------------------------------------------------------------------
(* Properties of the session                                               *)

\* C2: in template mode, once add_instance has created the ephemeral
\* instance, the session task ends only after delete_instance was called for
\* it, on every exit path (the shell ended, the readiness wait timed out, an
\* error while connecting, cancellation by connection_lost), with and without
\* a PTY; a delete that fails ends the cleanup like one that succeeds: the
\* task is over and the channel closed.
C2_EphemeralCleanup ==
    /\ (task.m = "done" /\ ses.created = "True") => ses.cleanup \in {"True", "False"}
    /\ ses.cleanup # "none" => (task.m = "done" /\ ~chan.open)

\* a PTY session was cancelled after its instance was created, and the
\* delete of the cleanup failed
C2_Witness ==
    /\ ses.is_ephemeral /\ ses.term_type /\ ses.created = "True"
    /\ task.m = "done" /\ task.exc = "cancelled"
    /\ ses.cleanup = "False"

\* C8: an instance-mode session always reaches a final outcome: its task
\* ends (not found, "Failed to start instance", error, cancellation) or it
\* binds a shell, also when the pod is first seen Terminating and stays so.
C8_FinalOutcome ==
    (ses.target_type = "instance" /\ task.m = "start")
        ~> (task.m = "done" \/ ses.bound # None)

\* C9: a session binds (sets active_instance_name, starts the agent bridge,
\* opens the exec stream) only to the pod of an instance that its most recent
\* resolution showed as Running.
C9_BindsOnlyRunning ==
    ses.bound # None =>
        /\ ses.seen # NoInstance
        /\ ses.seen.status = "Running"
        /\ ses.seen.podName = ses.bound

\* C10: once the session has written the annotation whistler.io/last-connect
\* because the pod was absent or not Running, the declaration of the
\* instance, where add_instance stored it, carries the annotation.
C10_NudgeAnnotatesDeclaration ==
    LET key == <<_get_user_namespace(ses.username),
                 dashed(ses.username, ses.target_name)>>
    IN  (ses.patched # "none" /\ instance_exists(key)) => instance_at(key).annotated

---------------------------------------------------------------------------
(* Properties of the operator                                              *)

\* the declarations the menu can make
MenuKeys ==
    {<<_get_user_namespace(u), dashed(u, n)>> : u \in MenuUsers, n \in MenuNames}

\* the fullNames of the templates an owner can see
visible_full_names(owner) ==
    {get_user_templates(owner)[i].fullName :
        i \in 1..Len(get_user_templates(owner))}

completed(key) ==
    /\ instance_at(key).uid \in DOMAIN outcome
    /\ outcome[instance_at(key).uid] = "ok"

\* C3: after add_instance succeeded for a template the owner can see (a
\* system template or one of the owner's own), the reconciliation of the
\* instance completes with its pod in place, unless the instance is deleted.
C3_ReconciliationCompletes ==
    \A key \in MenuKeys :
        (instance_exists(key)
            /\ instance_at(key).templateRef
                   \in visible_full_names(instance_at(key).user))
        ~> (~instance_exists(key) \/ completed(key))

\* C4: after delete_instance(owner, s) succeeded, eventually no pod with the
\* label instance=<owner>-<s> remains, whatever a reconciliation of that
\* instance that is in progress or due does in between.
C4_DeletedInstanceLosesPod ==
    \A u \in MenuUsers : \A n \in MenuNames :
        (api.op = "delete_instance" /\ api.ret = "True"
            /\ api.user = u /\ api.name = n)
        ~> (~\E p \in pods : p.ns = _get_user_namespace(u)
                             /\ p.instance = dashed(u, n))

\* an instance whose pod had been created was deleted and its pod is gone
C4_Witness ==
    /\ api.op = "delete_instance" /\ api.ret = "True" /\ api.name = <<"d">>
    /\ 1 \in DOMAIN outcome /\ outcome[1] = "ok"
    /\ pvcs # {}
    /\ ~\E p \in pods : p.instance = dashed(Alice, <<"d">>)

C20_PasswordStep == auth' # auth /\ auth'.via = "password"

\* C20: a password is accepted exactly when WHISTLER_AUTH_ALLOW_ANY is "true",
\* which is also when password authentication is advertised; without it
\* validate_password returns False and leaves the connection as it was.
C20_PasswordOnlyInDevMode ==
    /\ [](auth.via = "password" => (auth.ok <=> password_auth_supported))
    /\ [](password_auth_supported <=> allow_any)
    /\ [][(C20_PasswordStep /\ ~allow_any) =>
             /\ ~auth'.ok
             /\ UNCHANGED <<srv, conn, fwd, tunnels, sessionVars, clusterVars,
                            operatorVars>>]_vars

C20_Witness ==
    /\ ~allow_any /\ auth.via = "password" /\ ~auth.ok
    /\ conn = "auth" /\ srv = NewServer
    /\ handle = dashed(Alice, <<"d">>)

---------------------------------------------------------------------------
(* Properties of the instance store                                        *)

\* C11: every namespace into which the gateway wrote an instance declaration
\* or a user template holds the NetworkPolicy isolate-user-pods, also after a
\* policy read that failed with an error other than not-found.
C11_NamespaceIsolated ==
    /\ \A i \in instances : i.ns \in policies
    /\ \A k \in 1..Len(templates) :
           templates[k].user # SystemOwner => templates[k].ns \in policies

\* C12: an instance created through add_instance(owner, _, short, _) is named
\* f"{owner}-{short}", its pod has that name, and get_user_instances(owner)
\* lists it exactly once, under short.
C12_FullNameRoundTrip ==
    LET full_name == dashed(ses.username, ses.instance_name)
    IN  /\ \A i \in instances :
               /\ i.user = ses.username
               /\ i.ns = _get_user_namespace(ses.username)
               /\ i.name = full_name
               /\ Cardinality({v \in get_user_instances(i.user) :
                                   v.name = ses.instance_name}) = 1
               /\ \A v \in get_user_instances(i.user) :
                      v.podName # None => v.podName = full_name
        /\ \A p \in pods : p.name = full_name /\ p.instance = full_name

C12_Witness ==
    /\ ses.created = "True"
    /\ \E i \in instances : \E p \in pods :
           /\ p.owner = i.uid
           /\ p.name = dashed(ses.username, ses.instance_name)
           /\ ses.instance_name = dashed(<<"t">>, <<"7">>)

\* C15: every instance that template mode creates is preemptible, with a PTY
\* and without one.
C15_EphemeralPreemptible ==
    \A i \in instances :
        i.name = dashed(ses.username, ses.instance_name) => i.preemptible

---------------------------------------------------------------------------
(* Properties of the menu session                                          *)

\* the resize event of a step found the cooldown timer armed
C13_EventInCooldown == ses'.resizes = ses.resizes + 1 /\ ses._resize_timer

\* C13: of the resize events that arrive before the cooldown of a leading
\* post has expired, only the leading one is posted at once; with the one
\* post the expiry may add, at most two posts are made, and no event posts
\* while the timer is armed.
C13_ResizeCoalescing ==
    /\ [](/\ (ses._resize_timer /\ ses.expired = 0)
                 => Len(ses.posts) = ses.lead_at + 1
          /\ ses.expired <= 1 => Len(ses.posts) <= ses.lead_at + 2)
    /\ [][C13_EventInCooldown => ses'.posts = ses.posts]_vars

C13_Witness ==
    /\ ses.resizes = 3 /\ ses.expired = 1 /\ ses._resize_timer
    /\ Len(ses.posts) = ses.lead_at + 2
    /\ ses.posts[Len(ses.posts)] # ses.posts[Len(ses.posts) - 1]

---------------------------------------------------------------------------
(* Properties of the shell                                                 *)

\* C14: the MOTD is on the channel before the exec subprocess is started, so
\* every chunk of shell output on the channel comes after it.
C14_MotdFirst ==
    LET motd_at(j) == chan.out[j] \in {"motd", "motd_not_found"}
    IN  /\ procs.shell # "none" => \E j \in 1..Len(chan.out) : motd_at(j)
        /\ \A k \in 1..Len(chan.out) :
               chan.out[k] = "shell_out" => \E j \in 1..(k - 1) : motd_at(j)

C14_Witness ==
    /\ ses.term_type /\ procs.shell = "running" /\ procs.exec.pty
    /\ chan.out = <<"motd", "shell_out">>

\* a step of connection_lost cancels each task that exists and has not ended
C17_LostCancels ==
    (conn = "open" /\ conn' = "lost") =>
        /\ task.m \notin {"none", "done"} => task'.cancel_m
        /\ task.agent = "running" => task'.agent = "cancelled"

\* C17: connection_lost cancels the menu task, the shell task and the agent
\* bridge where they exist, and a session task that has ended after it has
\* closed the PTY master, left no exec subprocess running and, for an
\* ephemeral instance it created, attempted the deletion.
C17_LostRunsCleanup ==
    /\ [][C17_LostCancels]_vars
    /\ []((conn = "lost" /\ task.m = "done") =>
             /\ procs.master # "open"
             /\ procs.shell # "running"
             /\ ses.created = "True" => ses.cleanup # "none")

C17_Witness ==
    /\ conn = "lost" /\ task.m = "done"
    /\ procs.master = "closed" /\ procs.shell = "terminated"
    /\ task.agent = "cancelled"
    /\ ses.created = "True" /\ ses.cleanup = "True"

\* C18: a session whose shell ended while the client is still connected, by
\* a spawn that failed, a subprocess that ended or a PTY read that failed,
\* ends the channel with exit status 0, and an ephemeral session has attempted
\* the deletion of its instance when its task is over.
C18_RuntimeErrorExitsZero ==
    (task.s = "done" /\ conn = "open") =>
        /\ chan.exit = "0"
        /\ (task.m = "done" /\ ses.is_ephemeral) => ses.cleanup # "none"

C18_Witness ==
    /\ task.m = "done" /\ task.s = "done" /\ conn = "open"
    /\ ses.is_ephemeral /\ ses.cleanup = "True"
    /\ procs.master = "closed" /\ procs.shell \in {"none", "terminated"}
    /\ chan.exit = "0"

\* C19: a template-mode session whose instance was created and that ended
\* without a shell, the client still connected, has written an error text to
\* the channel and ended it with exit status 1.
C19_FailureExitsOne ==
    (task.m = "done" /\ conn = "open" /\ ses.target_type = "template"
        /\ ses.created = "True" /\ ses.bound = None) =>
        /\ chan.exit = "1"
        /\ \E k \in 1..Len(chan.out) :
               chan.out[k] \in {"not_found", "failed_to_start", "error_connecting"}

---------------------------------------------------------------------------
(* Properties of the listings                                              *)

C22_ListErrorsSurface ==
    (api.op = "get_user_instances" /\ api.fault # "none") => api.ret = "raised"

C24_StaleSaveRejected ==
    [][\A c \in Savers :
        LET body == save_template_body(saves[c].user, saves[c].data)
            i    == template_index(body.ns, body.name)
        IN  /\ (SaveRead(c) /\ i # 0) => saves'[c].rv = templates[i].rv
            /\ (SaveReplace(c) /\ i # 0) =>
                   IF templates[i].rv = saves[c].rv
                   THEN /\ saves'[c].ret = "True"
                        /\ templates'[i].image = body.image
                        /\ templates'[i].rv # templates[i].rv
                   ELSE /\ saves'[c].ret = "False"
                        /\ templates' = templates
            /\ (SaveCreate(c) /\ i = 0) =>
                   /\ saves'[c].ret = "True"
                   /\ \E j \in 1..Len(templates') :
                          /\ templates'[j].ns = body.ns /\ templates'[j].name = body.name
                          /\ templates'[j].image = body.image]_vars

C24_Witness ==
    \E c \in Savers : \E d \in Savers \ {c} :
        /\ saves[c].pc = "done" /\ saves[c].ret = "False" /\ saves[c].rv # 0
        /\ saves[d].pc = "done" /\ saves[d].ret = "True" /\ saves[d].rv = saves[c].rv
        /\ saves[c].data.name = saves[d].data.name
        /\ LET body == save_template_body(saves[d].user, saves[d].data)
               i    == template_index(body.ns, body.name)
           IN  i # 0 /\ templates[i].image = body.image

\* C25: every pod the operator created carries the labels app = instance-app,
\* instance = the name of its instance and user = the owner of the instance.
C25_PodLabels ==
    \A p \in pods :
        /\ p.app = "instance-app"
        /\ p.instance = p.name
        /\ p.ns = _get_user_namespace(p.user)
        /\ startswith(p.instance, p.user \o <<"-">>)

\* C26: the templateRef of every declared instance is the fullName of a
\* template its owner can list, and the read of that name in the instance's
\* namespace, which is the read ensure_pod makes, finds a template.
C26_TemplateRefResolves ==
    \A i \in instances :
        /\ \E k \in 1..Len(get_user_templates(i.user)) :
               get_user_templates(i.user)[k].fullName = i.templateRef
        /\ read_template(i.ns, i.templateRef) # {}

\* C27: get_user_templates(owner) returns exactly the system templates of the
\* system namespace and the templates of the owner's namespace that are the
\* system's or the owner's, never a template of another user, and the entries
\* of source system come before those of source user.
C27_TemplatesListed ==
    api.op = "get_user_templates" =>
        LET user_ns == _get_user_namespace(api.user)
            stored == {templates[i] : i \in 1..Len(templates)}
            expected ==
                {t \in stored :
                    \/ t.ns = SystemNS /\ t.user = SystemOwner
                    \/ t.ns = user_ns /\ t.user \in {SystemOwner, api.user}}
            n == Len(api.items)
        IN  /\ {api.items[i].image : i \in 1..n} = {t.image : t \in expected}
            /\ n = Cardinality(expected)
            /\ \A i \in 1..n : \A j \in (i + 1)..n :
                   ~(api.items[i].source = "user" /\ api.items[j].source = "system")

---------------------------------------------------------------------------
(* Properties of the session modes                                         *)

\* the instance declarations, without what a patch of the metadata changes
declarations ==
    {[ns |-> i.ns, name |-> i.name, uid |-> i.uid, templateRef |-> i.templateRef,
      user |-> i.user, preemptible |-> i.preemptible] : i \in instances}

\* C28: a step of a session changes the set of instance declarations only in
\* template mode; a session in instance mode leaves it as it is on every path.
C28_InstanceModeFrame ==
    [][(sessionVars' # sessionVars /\ declarations' # declarations)
           => ses.target_type = "template"]_vars

C28_Witness ==
    /\ ses.target_type = "instance" /\ task.m = "done" /\ chan.exit = "1"
    /\ \E k \in 1..Len(chan.out) : chan.out[k] = "failed_to_start"
    /\ ses.patched = "404"
    /\ declarations # {}

---------------------------------------------------------------------------
(* Properties of the operator's template read                              *)

\* C29: when the template an instance refers to is missing, the handler ends
\* with a temporary error and stays due for a retry; when the read fails
\* otherwise it ends with a permanent error and is not retried; in both cases
\* it creates no PersistentVolumeClaim and no pod.
C29_TemplateResolution ==
    [][\A key \in events : \A fault \in {"none", "read_error"} :
           ( /\ ReconcileStart(key, fault)
             /\ \/ fault = "read_error"
                \/ read_template(key[1], instance_at(key).templateRef) = {} )
           => /\ pvcs' = pvcs /\ pods' = pods
              /\ ~\E h \in handlers' : h.key = key
              /\ IF fault = "read_error"
                 THEN /\ outcome'[instance_at(key).uid] = "permanent"
                      /\ key \notin events'
                 ELSE /\ outcome'[instance_at(key).uid] = "temporary"
                      /\ key \in events']_vars

C29_Witness ==
    /\ \E i \in instances :
           /\ read_template(i.ns, i.templateRef) = {}
           /\ i.uid \in DOMAIN outcome /\ outcome[i.uid] = "temporary"
           /\ <<i.ns, i.name>> \in events
           /\ ~\E p \in pods : p.ns = i.ns /\ p.instance = i.name
    /\ \E i \in instances :
           /\ i.uid \in DOMAIN outcome /\ outcome[i.uid] = "permanent"
           /\ <<i.ns, i.name>> \notin events
           /\ ~\E p \in pods : p.ns = i.ns /\ p.instance = i.name

---------------------------------------------------------------------------
(* Properties of the isolation of the pods                                 *)

\* C30: the namespace of every pod the operator created exists and holds the
\* NetworkPolicy isolate-user-pods.
C30_PodsIsolated ==
    \A p \in pods : p.ns \in namespaces /\ p.ns \in policies

---------------------------------------------------------------------------
(* Properties of the operator's handlers running side by side             *)

\* C31: while the API server answers every call, no reconciliation ends with
\* a permanent error: a PersistentVolumeClaim that another handler of the same
\* owner created in the meantime is accepted and the pod is created.
C31_PvcAccepted ==
    \A i \in instances :
        i.uid \in DOMAIN outcome => outcome[i.uid] # "permanent"

\* C32: after a handler ended with the temporary error "Pod is terminating",
\* a retry creates the pod of the instance once the old pod is gone, unless
\* the instance is deleted.
C32_RetryCreatesPod ==
    \A i \in InstancesInit :
        (i \in instances /\ i.uid \in DOMAIN outcome
            /\ outcome[i.uid] = "temporary")
        ~> \/ ~\E j \in instances : j.uid = i.uid
           \/ \E p \in pods : p.ns = i.ns /\ p.name = i.name
                              /\ p.owner = i.uid /\ ~p.deleting

---------------------------------------------------------------------------
(* Properties of the teardown of template mode                             *)

\* C33: when the add_instance of a template-mode session returned False, the
\* delete_instance of its teardown removes no instance.
C33_CleanupOwnInstance ==
    ses.created = "False" => ses.cleanup # "True"

---------------------------------------------------------------------------
(* Properties of the exec streams                                          *)

\* C34: the exec stream of the shell addresses the pod in the namespace of the
\* user's instances, where the operator created it.
C34_ExecInPodNamespace ==
    procs.exec.pod # None =>
        /\ procs.exec.ns = _get_user_namespace(ses.username)
        /\ \A p \in pods : p.name = procs.exec.pod => p.ns = procs.exec.ns

---------------------------------------------------------------------------
(* Properties of the pods the operator takes as steady state               *)

\* C35: an instance whose reconciliation ended successfully has a pod that is
\* its child (ownerReference to the uid of the declaration), as long as the
\* instance is declared and its pod is not preempted.
C35_SteadyPodIsChild ==
    \A i \in instances :
        (i.uid \in DOMAIN outcome /\ outcome[i.uid] = "ok") =>
            \E p \in pods : p.ns = i.ns /\ p.name = i.name /\ p.owner = i.uid

---------------------------------------------------------------------------
(* Properties of the loading screen                                        *)

\* C36: in a session with a PTY, once the connect or create task of the
\* loading screen has finished (returned or raised) while the session task
\* still awaits the loading app, the loading app has been asked to exit.
C36_LoadingDismissed ==
    (ses.term_type /\ task.m = "app_wait" /\ task.c \in {"returned", "raised"})
        => task.app # "running"

---------------------------------------------------------------------------
(* Properties of the window size                                           *)

\* C37: while the shell runs on a PTY, the window size set on the PTY master
\* is the size the client signalled last, sizes signalled before the shell
\* was bound included.
C37_WindowSizeKept ==
    (procs.shell = "running" /\ procs.exec.pty) => ses.winsize = ses.term_size

---------------------------------------------------------------------------
(* Properties of the subprocesses of a lost connection                     *)

\* C38: once connection_lost has run, the session task has ended and the
\* agent bridge does not run any more, neither the exec subprocess of the
\* shell nor the one of the agent bridge is running.
C38_NoExecLeft ==
    (conn = "lost" /\ task.m \in {"none", "done"} /\ task.agent # "running")
        => procs.shell # "running" /\ procs.bridge # "running"

---------------------------------------------------------------------------
(* Properties of the failures of add_instance                              *)

\* C39: the add_instance call of a template-mode session ends with True or
\* False whatever the API server answers; no exception leaves it into the
\* session task.
C39_CreateNeverRaises ==
    ses.created # "raised"

====
